---- MODULE Spec2Model ----
(***************************************************************************)
(* Grid map, A* pathfinder and fog-of-war of the RTS game.                 *)
(*                                                                         *)
(*   src/map.py             GridHandler, Map, MapNode, PriorityQueue,      *)
(*                          Pathfinder                                     *)
(*   src/map/fog_of_war.py  FogOfWar                                       *)
(*                                                                         *)
(* Grid positions are pairs <<column, row>>.  A MapNode is identified by   *)
(* its grid position; its fields are functions of the grid position.       *)
(* Python's None is the string "None", ids are strings.  Python dicts are  *)
(* functions whose DOMAIN is the set of keys.                              *)
(*                                                                         *)
(* Numbers: the edge costs 1 and 1.4 times the two terrain costs are kept  *)
(* in tenths (20 and 28 for terrain cost 1), so sums of costs are exact.   *)
(* Priorities total + hypot * 1.001 are kept in thousandths with the       *)
(* irrational part rounded down.                                           *)
(***************************************************************************)
EXTENDS Integers, Sequences, FiniteSets, TLC

(***************************************************************************)
(* Bounds of the model.                                                    *)
(***************************************************************************)
\* largest map generated for the occupancy and path specifications
MaxColumns == 3
MaxRows == 2
\* most nodes that hold an entry of Map.units / Map.buildings (Spec)
MaxOccupied == 2
\* most occupied nodes of a map handed to find_path (SpecPath)
MaxBlocked == 3
\* side of the square map with the L-shaped wall (SpecDetour)
DetourSide == 4
\* columns of the one-row map watched by the fog-of-war (SpecFog)
FogColumns == 3
\* columns of the one-row map and most reveal_nodes calls of one frame where
\* the calls of a frame are recorded one by one (SpecObservers)
ObserverColumns == 2
MaxObservers == 2
MaxMissions == 4
MaxPower == 35
QueryColumns == 3
\* SpecSave: the tiles of the one row of the map whose FogOfWar is saved
SaveColumns == 2
\* SpecMission: the most victory points a player gets or needs
MaxPoints == 2
\* SpecProduction: the most products in the production_queue
MaxQueue == 4

(***************************************************************************)
(* Program constants.                                                      *)
(***************************************************************************)
TILE_WIDTH == 60
TILE_HEIGHT == 60
FOG_SPRITELIST_SIZE == 60
\* MapNode.terrain_cost, the same for every node
terrain_cost == 1

None == "None"
UnitIds == {"u1", "u2"}
BuildingIds == {"b1"}

VARIABLES
    \* Map: the arguments of __init__, how far the construction has come
    \* ("new", "generated", "recalculated" after a further call of
    \* calculate_distances_between_nodes, or the error raised), and for every
    \* key of Map.nodes the position of its MapNode
    width, height, grid_width, grid_height, map_state, map_nodes,
    \* Map
    columns, rows, costs, units, buildings,
    \* MapNode
    _unit_id, _building_id,
    \* Pathfinder.find_path: program counter, arguments, locals, outcome
    pc, start, end, elements, _contains, previous, cost_so_far, result,
    \* history of the find_path calls: the occupancy and the arguments of the
    \* last call that returned, and what it returned
    last_answer,
    \* history of the running call of find_path: the number of calls of get,
    \* and for every coordinate the number of calls of put with it
    pops, inserted,
    \* FogOfWar
    editor_mode, unexplored, visible, explored, grids_to_sprites,
    fog_sprite_lists,
    \* history of the setter calls: the value last passed to the unit_id
    \* setter and to the building_id setter of each node (None before the
    \* first call)
    unit_written, building_written,
    \* history of the reveal_nodes calls: the grids reported since the last
    \* update, in the frame closed by the last update, and in all closed frames
    frame_reports, last_frame_reports, earlier_reports,
    \* what was drawn over each grid when the last update began
    fog_before,
    \* the arguments of the reveal_nodes calls, in their order, of the frame in
    \* progress (frame_open) or of the frame the last update closed
    calls, frame_open,
    \* the last call of grid_to_node, position_to_node or Map.node and its
    \* outcome
    lookup_call, lookup_result,
    \* Building.occupied_nodes of every Building constructed, and the
    \* Buildings killed
    occupied_nodes, killed,
    \* Campaign: name (None before a Campaign is constructed) and missions;
    \* the indexes of the finished missions update was called with, and how
    \* the last call of update ended
    campaign_name, missions, finished_missions, update_outcome,
    \* SoundPlayer: currently_played maps a name to the state of its Player
    \* ("playing", "paused" or "deleted"); sound_call is the last method
    \* called and touched the names whose Players it called a method of
    currently_played, current_music, _sound_on, _music_on, sound_call, touched,
    \* the argument of get_enemies and the pair it returned (<<>> before the
    \* call)
    war, enemies,
    \* the state __getstate__ of FogOfWar returned last (<<>> before the first
    \* call), what was drawn over each grid at that call, and the method of
    \* FogOfWar called last
    saved_fow, fog_saved, fog_call,
    \* Mission: the names of its triggers in the order of the list, the ids
    \* of its players, the points each player has and needs, and the result
    triggers, players, victory_points, required_victory_points, ended, winner,
    \* history of the Mission calls: the method called last and its argument,
    \* the winner it passed to end_mission (None if it did not call it), the
    \* triggers that were fulfilled at the last call of evaluate_triggers and
    \* the triggers whose events that call executed, in their order
    mission_call, ending, fulfilled, executed,
    \* UnitsProducer
    production_queue, production_progress, production_per_frame, is_producing

shapeVars == <<width, height, grid_width, grid_height, map_state, map_nodes>>
mapVars == <<shapeVars, columns, rows, costs, units, buildings, _unit_id, _building_id,
            unit_written, building_written>>
pathVars == <<pc, start, end, elements, _contains, previous, cost_so_far, result,
             last_answer, pops, inserted>>
fogVars == <<editor_mode, unexplored, visible, explored, grids_to_sprites,
             fog_sprite_lists, frame_reports, last_frame_reports, earlier_reports,
             fog_before, calls, frame_open>>
lookupVars == <<lookup_call, lookup_result>>
buildingVars == <<occupied_nodes, killed>>
campaignVars == <<campaign_name, missions, finished_missions, update_outcome>>
soundVars == <<currently_played, current_music, _sound_on, _music_on, sound_call, touched>>
enemiesVars == <<war, enemies>>
saveVars == <<saved_fow, fog_saved, fog_call>>
missionVars == <<triggers, players, victory_points, required_victory_points, ended,
                winner, mission_call, ending, fulfilled, executed>>
productionVars == <<production_queue, production_progress, production_per_frame,
                   is_producing>>
otherVars == <<lookupVars, buildingVars, campaignVars, soundVars, enemiesVars, saveVars,
              missionVars, productionVars>>
besidesLookup == <<buildingVars, campaignVars, soundVars, enemiesVars, saveVars,
    missionVars, productionVars>>
besidesBuilding == <<lookupVars, campaignVars, soundVars, enemiesVars, saveVars,
    missionVars, productionVars>>
besidesCampaign == <<lookupVars, buildingVars, soundVars, enemiesVars, saveVars,
    missionVars, productionVars>>
besidesSound == <<lookupVars, buildingVars, campaignVars, enemiesVars, saveVars,
    missionVars, productionVars>>
besidesEnemies == <<lookupVars, buildingVars, campaignVars, soundVars, saveVars,
    missionVars, productionVars>>
besidesSave == <<lookupVars, buildingVars, campaignVars, soundVars, enemiesVars,
    missionVars, productionVars>>
besidesMission == <<lookupVars, buildingVars, campaignVars, soundVars, enemiesVars,
    saveVars, productionVars>>
besidesProduction == <<lookupVars, buildingVars, campaignVars, soundVars, enemiesVars,
    saveVars, missionVars>>
vars == <<mapVars, pathVars, fogVars, otherVars>>

(***************************************************************************)
(* GridHandler                                                             *)
(***************************************************************************)
adjacent_offsets ==
    << <<-1, -1>>, <<-1, 0>>, <<-1, 1>>, <<0, 1>>, <<0, -1>>, <<1, -1>>,
       <<1, 0>>, <<1, 1>> >>

\* position_to_grid as it would be if the division rounded towards zero
position_to_grid_truncating(x, y) ==
    <<IF x < 0 THEN -((-x) \div TILE_WIDTH) ELSE x \div TILE_WIDTH,
      IF y < 0 THEN -((-y) \div TILE_HEIGHT) ELSE y \div TILE_HEIGHT>>

\* x // TILE_WIDTH, y // TILE_HEIGHT: the division rounds down
position_to_grid(x, y) == <<x \div TILE_WIDTH, y \div TILE_HEIGHT>>

grid_to_position(grid) ==
    <<grid[1] * TILE_WIDTH + TILE_WIDTH \div 2,
      grid[2] * TILE_HEIGHT + TILE_HEIGHT \div 2>>

\* int(x) and int(y) of whole numbers are x and y
normalize_position(x, y) == grid_to_position(position_to_grid(x, y))

adjacent_grids(x, y) ==
    LET grid == position_to_grid(x, y)
    IN  [i \in 1..Len(adjacent_offsets) |->
            <<grid[1] + adjacent_offsets[i][1], grid[2] + adjacent_offsets[i][2]>>]

\* diagonal as it would be with "or" in the place of "and"
diagonal_either(first_id, second_id) ==
    first_id[1] # second_id[1] \/ first_id[2] # second_id[2]

diagonal(first_id, second_id) ==
    first_id[1] # second_id[1] /\ first_id[2] # second_id[2]

(***************************************************************************)
(* Map                                                                     *)
(***************************************************************************)
\* the keys of Map.nodes after generate_nodes
GridNodes(cols, rws) == (0..(cols - 1)) \X (0..(rws - 1))

nodes == GridNodes(columns, rows)

\* in_bounds as it would be with <= in the place of < at the upper ends
in_bounds_inclusive(grids) ==
    SelectSeq(grids, LAMBDA p : 0 <= p[1] /\ p[1] <= columns /\ 0 <= p[2] /\ p[2] <= rows)

in_bounds(grids) ==
    SelectSeq(grids, LAMBDA p : 0 <= p[1] /\ p[1] < columns /\ 0 <= p[2] /\ p[2] < rows)

\* MapNode.position of the node at grid
position(grid) == grid_to_position(grid)

\* walkable as it would be if it read the unit occupancy alone
walkable_unit_only(grid) == _unit_id[grid] = None

\* MapNode.walkable of the node at grid
walkable(grid) == _unit_id[grid] = None /\ _building_id[grid] = None

\* nodes are named by their grid positions: self.nodes[adj] is adj
adjacent_nodes(x, y) == in_bounds(adjacent_grids(x, y))

\* walkable_adjacent as it would be without the test of n.walkable
walkable_adjacent_unfiltered(x, y) == adjacent_nodes(x, y)

walkable_adjacent(x, y) == SelectSeq(adjacent_nodes(x, y), walkable)

\* the node.costs tables written by calculate_distances_between_nodes on a
\* map of cols x rws nodes, in tenths
calculate_distances_between_nodes(cols, rws) ==
    [grid \in GridNodes(cols, rws) |->
        LET adj == {a \in GridNodes(cols, rws) :
                       \E i \in 1..Len(adjacent_offsets) :
                           a = <<grid[1] + adjacent_offsets[i][1],
                                 grid[2] + adjacent_offsets[i][2]>>}
        IN  [a \in adj |->
                (IF diagonal(grid, a) THEN 14 ELSE 10)
                    * (terrain_cost + terrain_cost)]]

\* recalculate_distances as it would be if a distance were added to the
\* entry the table holds
recalculate_distances_adding(old, cols, rws) ==
    [grid \in DOMAIN old |->
        [a \in DOMAIN old[grid] |->
            old[grid][a] + calculate_distances_between_nodes(cols, rws)[grid][a]]]

\* calculate_distances_between_nodes called on a map whose nodes hold the
\* tables old: every entry is assigned again, no key is removed
recalculate_distances(old, cols, rws) ==
    [grid \in DOMAIN old |->
        calculate_distances_between_nodes(cols, rws)[grid] @@ old[grid]]

\* the for loop over y of generate_nodes for column x, from row y on
RECURSIVE generate_rows(_, _, _, _)
generate_rows(table, x, y, rws) ==
    IF y >= rws THEN table
    ELSE generate_rows((<<x, y>> :> grid_to_position(<<x, y>>)) @@ table, x, y + 1, rws)

\* the for loop over x of generate_nodes, from column x on
RECURSIVE generate_columns(_, _, _, _)
generate_columns(table, x, cols, rws) ==
    IF x >= cols THEN table
    ELSE generate_columns(generate_rows(table, x, 0, rws), x + 1, cols, rws)

\* generate_nodes as it would be with the two ranges exchanged
generate_nodes_transposed(cols, rws) ==
    generate_columns([g \in {} |-> <<0, 0>>], 0, rws, cols)

\* Map.nodes after generate_nodes, each node given by its position
generate_nodes(cols, rws) == generate_columns([g \in {} |-> <<0, 0>>], 0, cols, rws)

(***************************************************************************)
(* MapNode: the unit_id and building_id properties                         *)
(***************************************************************************)
unit_id(grid) == _unit_id[grid]

\* the getter of building_id returns self._unit_id
building_id(grid) == _unit_id[grid]

\* the unit_id setter as it would be if it left a node alone that holds
\* another unit
unit_id_setter_unless_held(grid, value) ==
    IF _unit_id[grid] # None /\ value # None
    THEN UNCHANGED <<units, _unit_id>>
    ELSE /\ units' = (grid :> value) @@ units
         /\ _unit_id' = [_unit_id EXCEPT ![grid] = value]

\* node.unit_id = value
unit_id_setter(grid, value) ==
    /\ units' = (grid :> value) @@ units
    /\ _unit_id' = [_unit_id EXCEPT ![grid] = value]

\* node.building_id = value
building_id_setter(grid, value) ==
    /\ buildings' = (grid :> value) @@ buildings
    /\ _building_id' = [_building_id EXCEPT ![grid] = value]

(***************************************************************************)
(* Initial states.                                                         *)
(***************************************************************************)
EmptyDict == [g \in {} |-> None]
NoResult == [status |-> "none", path |-> <<>>]

\* Map.__init__ for a map of cols x rws nodes: every node is free, the
\* reverse-lookup tables are empty, the costs are calculated
\* the map was made by Map(cols * TILE_WIDTH, rws * TILE_HEIGHT, TILE_WIDTH,
\* TILE_HEIGHT)
Generated(cols, rws) ==
    /\ width = cols * TILE_WIDTH
    /\ height = rws * TILE_HEIGHT
    /\ grid_width = TILE_WIDTH
    /\ grid_height = TILE_HEIGHT
    /\ map_state = "generated"
    /\ map_nodes = generate_nodes(cols, rws)

MapInit(cols, rws) ==
    /\ Generated(cols, rws)
    /\ columns = cols
    /\ rows = rws
    /\ costs = calculate_distances_between_nodes(cols, rws)
    /\ units = EmptyDict
    /\ buildings = EmptyDict
    /\ _unit_id = [g \in GridNodes(cols, rws) |-> None]
    /\ _building_id = [g \in GridNodes(cols, rws) |-> None]
    /\ unit_written = [g \in GridNodes(cols, rws) |-> None]
    /\ building_written = [g \in GridNodes(cols, rws) |-> None]

\* no node has been looked up
NoLookup ==
    /\ lookup_call = [op |-> "none", arg |-> <<>>]
    /\ lookup_result = [status |-> "none", node |-> <<>>]

\* nothing but the map, the pathfinder and the fog-of-war has been used
\* no Building has been constructed
NoBuilding ==
    /\ occupied_nodes = [b \in {} |-> {}]
    /\ killed = {}

\* no Campaign has been constructed
NoCampaign ==
    /\ campaign_name = None
    /\ missions = <<>>
    /\ finished_missions = {}
    /\ update_outcome = "none"

\* SoundPlayer() with its default arguments
SoundPlayer ==
    /\ currently_played = [name \in {} |-> "playing"]
    /\ current_music = None
    /\ _sound_on = TRUE
    /\ _music_on = TRUE
    /\ sound_call = "__init__"
    /\ touched = {}

\* get_enemies has not been called
NoWar ==
    /\ war = <<0, 0>>
    /\ enemies = <<>>

\* no FogOfWar has been saved
NoSave ==
    /\ saved_fow = <<>>
    /\ fog_saved = EmptyDict
    /\ fog_call = "__init__"

\* the players a Mission is played by and gives points to
Players == {"p1", "p2", "p3"}

\* Mission.__init__
Mission ==
    /\ triggers = <<>>
    /\ players = {}
    /\ victory_points = [p \in Players |-> 0]
    /\ required_victory_points = [p \in Players |-> 0]
    /\ ended = FALSE
    /\ winner = None
    /\ mission_call = [op |-> "__init__", arg |-> <<>>]
    /\ ending = None
    /\ fulfilled = {}
    /\ executed = <<>>

\* UnitsProducer.__init__
UnitsProducer ==
    /\ production_queue = <<>>
    /\ production_progress = 0
    /\ production_per_frame = 0
    /\ is_producing = FALSE

Untouched ==
    /\ NoLookup
    /\ NoBuilding
    /\ NoCampaign
    /\ SoundPlayer
    /\ NoWar
    /\ NoSave
    /\ Mission
    /\ UnitsProducer

\* no find_path call is running
PathIdle ==
    /\ pc = "idle"
    /\ start = <<0, 0>>
    /\ end = <<0, 0>>
    /\ elements = {}
    /\ _contains = {}
    /\ previous = EmptyDict
    /\ cost_so_far = EmptyDict
    /\ result = NoResult
    /\ last_answer = [asked |-> <<>>, result |-> NoResult]
    /\ pops = 0
    /\ inserted = [g \in {} |-> 0]

\* the sprite lists made by create_dark_sprites, one per block of
\* FOG_SPRITELIST_SIZE x FOG_SPRITELIST_SIZE grids, each a set of
\* <<grid, texture>> sprites
FogBlocks(cols, rws) ==
    (0..(cols \div FOG_SPRITELIST_SIZE)) \X (0..(rws \div FOG_SPRITELIST_SIZE))

FogBlock(grid) ==
    <<grid[1] \div FOG_SPRITELIST_SIZE, grid[2] \div FOG_SPRITELIST_SIZE>>

create_dark_sprites(cols, rws, dark) ==
    [b \in FogBlocks(cols, rws) |->
        {<<g, "DARK">> : g \in {u \in dark : FogBlock(u) = b}}]

\* no FogOfWar has been made yet
NoFog ==
    /\ editor_mode = FALSE
    /\ unexplored = {}
    /\ visible = {}
    /\ explored = {}
    /\ grids_to_sprites = EmptyDict
    /\ fog_sprite_lists = EmptyDict
    /\ frame_reports = {}
    /\ last_frame_reports = {}
    /\ earlier_reports = {}
    /\ fog_before = EmptyDict
    /\ calls = <<>>
    /\ frame_open = FALSE

\* FogOfWar.__init__ on a map of cols x rws tiles
FogInit(cols, rws) ==
    /\ editor_mode \in BOOLEAN
    /\ unexplored = GridNodes(cols, rws)
    /\ visible = {}
    /\ explored = {}
    /\ grids_to_sprites =
           IF editor_mode THEN EmptyDict
           ELSE [g \in GridNodes(cols, rws) |-> "DARK"]
    /\ fog_sprite_lists =
           create_dark_sprites(cols, rws,
               IF editor_mode THEN {} ELSE GridNodes(cols, rws))
    /\ frame_reports = {}
    /\ last_frame_reports = {}
    /\ earlier_reports = {}

(***************************************************************************)
(* PriorityQueue: elements is the heap, a collection of (priority, item)   *)
(* tuples, of which heappop returns the least; tuples compare by priority  *)
(* first and by item next.  The heap is kept as the set of its tuples.     *)
(***************************************************************************)
TupleLess(a, b) ==
    \/ a[1] < b[1]
    \/ a[1] = b[1] /\ a[2][1] < b[2][1]
    \/ a[1] = b[1] /\ a[2][1] = b[2][1] /\ a[2][2] < b[2][2]

\* heapq.heappop(self.elements): the least tuple of the heap
heappop(heap) == CHOOSE e \in heap : \A f \in heap \ {e} : TupleLess(e, f)

\* PriorityQueue.put on the queue q = [elements, _contains]
put(q, item, priority) ==
    [elements |-> q.elements \cup {<<priority, item>>},
     _contains |-> q._contains \cup {item}]

\* PriorityQueue.get: the item returned and the queue left behind
get(q) ==
    [item |-> heappop(q.elements)[2],
     queue |-> [elements |-> q.elements \ {heappop(q.elements)},
                _contains |-> q._contains]]

\* PriorityQueue.__contains__
contains(q, item) == item \in q._contains

(***************************************************************************)
(* Pathfinder                                                              *)
(***************************************************************************)
RECURSIVE ISqrtIn(_, _, _)
ISqrtIn(n, lo, hi) ==
    IF lo = hi THEN lo
    ELSE LET mid == (lo + hi + 1) \div 2
         IN  IF mid * mid <= n THEN ISqrtIn(n, mid, hi)
             ELSE ISqrtIn(n, lo, mid - 1)

\* the integer square root of n
ISqrt(n) == ISqrtIn(n, 0, 46340)

\* hypot(start[0] - end[0], start[1] - end[1]), in thousandths
heuristic(a, b) ==
    ISqrt(1000000 * ((a[1] - b[1]) * (a[1] - b[1]) + (a[2] - b[2]) * (a[2] - b[2])))

\* total + heuristic(grid, end) * 1.001, in thousandths; total is in tenths
priority_of(total, grid, goal) == total * 100 + (heuristic(grid, goal) * 1001) \div 1000

\* predecessors as it would be if the walk stopped before the node that has
\* no predecessor
RECURSIVE predecessors_short(_, _)
predecessors_short(previous_nodes, current_node) ==
    IF current_node \in DOMAIN previous_nodes
    THEN <<current_node>> \o predecessors_short(previous_nodes, previous_nodes[current_node])
    ELSE <<>>

\* the nodes from current_node back along the predecessor links
RECURSIVE predecessors(_, _)
predecessors(previous_nodes, current_node) ==
    IF current_node \in DOMAIN previous_nodes
    THEN <<current_node>> \o predecessors(previous_nodes, previous_nodes[current_node])
    ELSE <<current_node>>

Reverse(s) == [i \in 1..Len(s) |-> s[Len(s) + 1 - i]]

nodes_list_to_path(nodes_list) == [i \in 1..Len(nodes_list) |-> position(nodes_list[i])]

\* reconstruct_path as it would be without path[::-1]
reconstruct_path_unreversed(previous_nodes, current_node) ==
    nodes_list_to_path(predecessors(previous_nodes, current_node))

reconstruct_path(previous_nodes, current_node) ==
    nodes_list_to_path(Reverse(predecessors(previous_nodes, current_node)))

\* the locals of find_path
SearchState ==
    [queue |-> [elements |-> elements, _contains |-> _contains],
     previous |-> previous, cost_so_far |-> cost_so_far]

\* the body of the for loop as it would be without the filter
\* a.grid not in unexplored
relax_unfiltered(st, current, adj) ==
    LET total == st.cost_so_far[current] + costs[current][adj]
    IN  IF adj \notin DOMAIN st.cost_so_far \/ total < st.cost_so_far[adj]
        THEN [queue |-> put(st.queue, adj, priority_of(total, adj, end)),
              previous |-> (adj :> current) @@ st.previous,
              cost_so_far |-> (adj :> total) @@ st.cost_so_far]
        ELSE st

\* the body of the for loop of find_path for one adjacent node adj of current
relax(st, current, adj) ==
    IF contains(st.queue, adj) THEN st
    ELSE LET total == st.cost_so_far[current] + costs[current][adj]
         IN  IF adj \notin DOMAIN st.cost_so_far \/ total < st.cost_so_far[adj]
             THEN [queue |-> put(st.queue, adj, priority_of(total, adj, end)),
                   previous |-> (adj :> current) @@ st.previous,
                   cost_so_far |-> (adj :> total) @@ st.cost_so_far]
             ELSE st

\* the for loop of find_path over the adjacent nodes adjs[i..]
RECURSIVE expand(_, _, _, _)
expand(st, current, adjs, i) ==
    IF i > Len(adjs) THEN st
    ELSE expand(relax(st, current, adjs[i]), current, adjs, i + 1)

\* find_path_call as it would be if the search marked its start as occupied
find_path_call_marking(s, e) ==
    /\ pc = "idle"
    /\ pc' = "loop"
    /\ start' = s
    /\ end' = e
    /\ elements' = {<<priority_of(0, s, e), s>>}
    /\ _contains' = {s}
    /\ previous' = EmptyDict
    /\ cost_so_far' = (s :> 0)
    /\ result' = NoResult
    /\ unit_id_setter(s, "u1")
    /\ unit_written' = [unit_written EXCEPT ![s] = "u1"]
    /\ UNCHANGED <<shapeVars, columns, rows, costs, buildings, _building_id,
                   building_written, fogVars, otherVars>>

\* find_path(s, e) up to the while loop
find_path_call(s, e) ==
    /\ pc = "idle"
    /\ pc' = "loop"
    /\ start' = s
    /\ end' = e
    /\ elements' = {<<priority_of(0, s, e), s>>}
    /\ _contains' = {s}
    /\ previous' = EmptyDict
    /\ cost_so_far' = (s :> 0)
    /\ result' = NoResult
    /\ UNCHANGED <<mapVars, fogVars, otherVars>>

Returned(path) == [status |-> "returned", path |-> path]
KeyError == [status |-> "KeyError", path |-> <<>>]

\* one test of the while condition and, if the queue is not empty, one
\* iteration of the loop body
find_path_loop ==
    /\ pc = "loop"
    /\ UNCHANGED <<start, end, mapVars, fogVars, otherVars>>
    /\ IF elements = {}
       THEN /\ result' = Returned(<<>>)
            /\ pc' = "done"
            /\ UNCHANGED <<elements, _contains, previous, cost_so_far>>
       ELSE \E got \in {get(SearchState.queue)} :
            LET current == got.item
            IN  IF current = end
                THEN /\ result' = IF current \in nodes
                                  THEN Returned(reconstruct_path(previous, current))
                                  ELSE KeyError
                     /\ pc' = "done"
                     /\ elements' = got.queue.elements
                     /\ _contains' = got.queue._contains
                     /\ UNCHANGED <<previous, cost_so_far>>
                ELSE IF current \notin nodes
                THEN /\ result' = KeyError
                     /\ pc' = "done"
                     /\ elements' = got.queue.elements
                     /\ _contains' = got.queue._contains
                     /\ UNCHANGED <<previous, cost_so_far>>
                ELSE \E st \in {expand([SearchState EXCEPT !.queue = got.queue], current,
                                        walkable_adjacent(position(current)[1],
                                                          position(current)[2]), 1)} :
                         /\ elements' = st.queue.elements
                         /\ _contains' = st.queue._contains
                         /\ previous' = st.previous
                         /\ cost_so_far' = st.cost_so_far
                         /\ UNCHANGED <<pc, result>>

\* the call is over: its locals and its outcome are gone
find_path_return ==
    /\ pc = "done"
    /\ pc' = "idle"
    /\ start' = <<0, 0>>
    /\ end' = <<0, 0>>
    /\ elements' = {}
    /\ _contains' = {}
    /\ previous' = EmptyDict
    /\ cost_so_far' = EmptyDict
    /\ result' = NoResult
    /\ UNCHANGED <<mapVars, fogVars, otherVars>>

(***************************************************************************)
(* Spec: the occupancy setters on a freshly generated map.                 *)
(***************************************************************************)
Init ==
    /\ \E cols \in 1..MaxColumns, rws \in 1..MaxRows : MapInit(cols, rws)
    /\ PathIdle
    /\ Untouched
    /\ NoFog

Touched(grid) == DOMAIN units \cup DOMAIN buildings \cup {grid}

SetUnit ==
    \E grid \in nodes, value \in UnitIds \cup {None} :
        /\ Cardinality(Touched(grid)) <= MaxOccupied
        /\ unit_id_setter(grid, value)
        /\ unit_written' = [unit_written EXCEPT ![grid] = value]
        /\ UNCHANGED <<shapeVars, columns, rows, costs, buildings, _building_id,
                       building_written>>
        /\ UNCHANGED <<pathVars, fogVars, otherVars>>

SetBuilding ==
    \E grid \in nodes, value \in BuildingIds \cup {None} :
        /\ Cardinality(Touched(grid)) <= MaxOccupied
        /\ building_id_setter(grid, value)
        /\ building_written' = [building_written EXCEPT ![grid] = value]
        /\ UNCHANGED <<shapeVars, columns, rows, costs, units, _unit_id, unit_written>>
        /\ UNCHANGED <<pathVars, fogVars, otherVars>>

Next == SetUnit \/ SetBuilding

Spec == Init /\ [][Next]_vars

(***************************************************************************)
(* SpecGenerate: Map.__init__ for widths and heights from -TILE_WIDTH / 2  *)
(* on in steps of half a tile and grid sizes of no, half and one tile,     *)
(* such that no more than MaxColumns x MaxRows nodes are made; then        *)
(* further calls of calculate_distances_between_nodes.                     *)
(***************************************************************************)
GridSizes == {0, TILE_WIDTH \div 2, TILE_WIDTH}

Lengths(most) == {k * (TILE_WIDTH \div 2) : k \in -1..(2 * most + 1)}

GenerateInit ==
    /\ grid_width \in GridSizes
    /\ grid_height \in GridSizes
    /\ width \in {w \in Lengths(MaxColumns) :
                     grid_width # 0 => w \div grid_width <= MaxColumns}
    /\ height \in {h \in Lengths(MaxRows) :
                      grid_height # 0 => h \div grid_height <= MaxRows}
    /\ map_state = "new"
    /\ map_nodes = generate_nodes(0, 0)
    /\ columns = 0
    /\ rows = 0
    /\ costs = EmptyDict
    /\ units = EmptyDict
    /\ buildings = EmptyDict
    /\ _unit_id = EmptyDict
    /\ _building_id = EmptyDict
    /\ unit_written = EmptyDict
    /\ building_written = EmptyDict
    /\ PathIdle
    /\ Untouched
    /\ NoFog

\* Map(width, height, grid_width, grid_height): the floor divisions raise
\* ZeroDivisionError for a grid size of 0, before anything is generated
MapNew ==
    /\ map_state = "new"
    /\ IF grid_height = 0 \/ grid_width = 0
       THEN /\ map_state' = "ZeroDivisionError"
            /\ UNCHANGED <<map_nodes, columns, rows, costs, units, buildings,
                           _unit_id, _building_id, unit_written, building_written>>
       ELSE /\ map_state' = "generated"
            /\ rows' = height \div grid_height
            /\ columns' = width \div grid_width
            /\ units' = EmptyDict
            /\ buildings' = EmptyDict
            /\ map_nodes' = generate_nodes(columns', rows')
            /\ costs' = calculate_distances_between_nodes(columns', rows')
            /\ _unit_id' = [g \in DOMAIN map_nodes' |-> None]
            /\ _building_id' = [g \in DOMAIN map_nodes' |-> None]
            /\ unit_written' = [g \in DOMAIN map_nodes' |-> None]
            /\ building_written' = [g \in DOMAIN map_nodes' |-> None]
    /\ UNCHANGED <<width, height, grid_width, grid_height, pathVars, fogVars, otherVars>>

\* map.calculate_distances_between_nodes() on a generated map
CalculateAgain ==
    /\ map_state \in {"generated", "recalculated"}
    /\ map_state' = "recalculated"
    /\ costs' = recalculate_distances(costs, columns, rows)
    /\ UNCHANGED <<width, height, grid_width, grid_height, map_nodes, columns, rows,
                   units, buildings, _unit_id, _building_id, unit_written,
                   building_written, pathVars, fogVars, otherVars>>

GenerateNext == MapNew \/ CalculateAgain

SpecGenerate == GenerateInit /\ [][GenerateNext]_vars

(***************************************************************************)
(* SpecPath: find_path on maps of every size up to MaxColumns x MaxRows    *)
(* with up to MaxBlocked occupied nodes.  Buildings stand on the occupied  *)
(* nodes whose column + row is even, units on the others.  The arguments   *)
(* are the nodes of the map and two grid positions outside it.             *)
(***************************************************************************)
IsBuildingSite(grid) == (grid[1] + grid[2]) % 2 = 0

\* the map after node.unit_id = "u1" / node.building_id = "b1" for the nodes
\* of occupied
Occupied(occupied) ==
    /\ units = [g \in {o \in occupied : ~IsBuildingSite(o)} |-> "u1"]
    /\ buildings = [g \in {o \in occupied : IsBuildingSite(o)} |-> "b1"]
    /\ _unit_id = [g \in nodes |->
                      IF g \in occupied /\ ~IsBuildingSite(g) THEN "u1" ELSE None]
    /\ _building_id = [g \in nodes |->
                          IF g \in occupied /\ IsBuildingSite(g) THEN "b1" ELSE None]
    /\ unit_written = _unit_id
    /\ building_written = _building_id

OccupiedMapInit(cols, rws, occupied) ==
    /\ Generated(cols, rws)
    /\ columns = cols
    /\ rows = rws
    /\ costs = calculate_distances_between_nodes(cols, rws)
    /\ Occupied(occupied)

Outside == {<<-1, 0>>, <<columns, rows>>}

PathInit ==
    /\ \E cols \in 1..MaxColumns, rws \in 1..MaxRows :
           \E occupied \in SUBSET GridNodes(cols, rws) :
               /\ Cardinality(occupied) <= MaxBlocked
               /\ OccupiedMapInit(cols, rws, occupied)
    /\ PathIdle
    /\ Untouched
    /\ NoFog

\* the gets and puts of a step of find_path, counted: the loop calls get
\* once unless the queue is empty, and the entries new in the heap are those
\* put
Counted ==
    IF pc = "done"
    THEN /\ pops' = 0
         /\ inserted' = [g \in {} |-> 0]
    ELSE /\ pops' = IF pc = "loop" /\ elements # {} THEN pops + 1 ELSE pops
         /\ LET new == {e[2] : e \in elements' \ elements}
            IN  inserted' = [g \in DOMAIN inserted \cup new |->
                                (IF g \in DOMAIN inserted THEN inserted[g] ELSE 0)
                                + (IF g \in new THEN 1 ELSE 0)]

FindPathCall ==
    /\ \E s \in nodes \cup Outside, e \in nodes \cup Outside : find_path_call(s, e)
    /\ Counted
    /\ UNCHANGED last_answer

FindPathLoop == find_path_loop /\ Counted /\ UNCHANGED last_answer

FindPathReturn == find_path_return /\ Counted /\ UNCHANGED last_answer

PathNext == FindPathCall \/ FindPathLoop \/ FindPathReturn

SpecPath == PathInit /\ [][PathNext]_vars

(***************************************************************************)
(* SpecQuery: find_path on the map of one row of QueryColumns nodes, with  *)
(* calls of the unit_id setter between the calls of find_path (a call of   *)
(* find_path runs to its end before anything else does).                   *)
(***************************************************************************)
\* the occupancy and the arguments of the call that is running
Asked == <<_unit_id, _building_id, start, end>>

QueryInit ==
    /\ MapInit(QueryColumns, 1)
    /\ PathIdle
    /\ Untouched
    /\ NoFog

QueryCall ==
    /\ \E s \in nodes, e \in nodes : find_path_call(s, e)
    /\ Counted
    /\ UNCHANGED last_answer

QueryLoop == find_path_loop /\ Counted /\ UNCHANGED last_answer

QueryReturn ==
    /\ last_answer' = [asked |-> Asked, result |-> result]
    /\ find_path_return
    /\ Counted

QuerySetUnit ==
    /\ pc = "idle"
    /\ SetUnit

QueryNext == QueryCall \/ QueryLoop \/ QueryReturn \/ QuerySetUnit

SpecQuery == QueryInit /\ [][QueryNext]_vars

(***************************************************************************)
(* SpecLookup: grid_to_node, Map.node and position_to_node on the map of   *)
(* MaxColumns x MaxRows nodes with up to MaxOccupied occupied nodes, for   *)
(* the grids of the map and of the ring around it and for the first and    *)
(* the last position of each of these grids.                               *)
(***************************************************************************)
NodeFound(grid) == [status |-> "returned", node |-> grid]
NodeKeyError == [status |-> "KeyError", node |-> <<>>]

\* grid_to_node as it would be if a missing grid gave the first node
grid_to_node_defaulting(grid) ==
    IF grid \in DOMAIN map_nodes THEN NodeFound(grid) ELSE NodeFound(<<0, 0>>)

\* self.nodes[grid]
grid_to_node(grid) ==
    IF grid \in DOMAIN map_nodes THEN NodeFound(grid) ELSE NodeKeyError

position_to_node(x, y) == grid_to_node(position_to_grid(x, y))

node(grid) == grid_to_node(grid)

LookupGrids == (-1..columns) \X (-1..rows)

LookupPositions ==
    {<<g[1] * TILE_WIDTH + d * (TILE_WIDTH - 1), g[2] * TILE_HEIGHT + d * (TILE_HEIGHT - 1)>> :
        g \in LookupGrids, d \in {0, 1}}

LookupInit ==
    /\ \E occupied \in SUBSET GridNodes(MaxColumns, MaxRows) :
           /\ Cardinality(occupied) <= MaxOccupied
           /\ OccupiedMapInit(MaxColumns, MaxRows, occupied)
    /\ PathIdle
    /\ Untouched
    /\ NoFog

GridToNode ==
    \E grid \in LookupGrids :
        /\ lookup_call' = [op |-> "grid_to_node", arg |-> grid]
        /\ lookup_result' = grid_to_node(grid)
        /\ UNCHANGED <<mapVars, pathVars, fogVars, besidesLookup>>

Node ==
    \E grid \in LookupGrids :
        /\ lookup_call' = [op |-> "node", arg |-> grid]
        /\ lookup_result' = node(grid)
        /\ UNCHANGED <<mapVars, pathVars, fogVars, besidesLookup>>

PositionToNode ==
    \E p \in LookupPositions :
        /\ lookup_call' = [op |-> "position_to_node", arg |-> p]
        /\ lookup_result' = position_to_node(p[1], p[2])
        /\ UNCHANGED <<mapVars, pathVars, fogVars, besidesLookup>>

LookupNext == GridToNode \/ Node \/ PositionToNode

SpecLookup == LookupInit /\ [][LookupNext]_vars

(***************************************************************************)
(* SpecPositions: position_to_grid, normalize_position and                 *)
(* position_to_node are called once with a position, grid_to_position     *)
(* with a grid, on the map of MaxColumns x MaxRows nodes.  The positions   *)
(* are whole numbers and lie in the tiles of the map and in the tiles left *)
(* of and below it, where the coordinates are negative, with at least one  *)
(* coordinate at the first, the middle or the last place of its tile.      *)
(***************************************************************************)
Places == {0, TILE_WIDTH \div 2, TILE_WIDTH - 1}

Positions(cols, rws) ==
    {p \in ((-TILE_WIDTH)..(cols * TILE_WIDTH - 1)) \X ((-TILE_HEIGHT)..(rws * TILE_HEIGHT - 1)) :
        p[1] % TILE_WIDTH \in Places \/ p[2] % TILE_HEIGHT \in Places}

Value(v) == [status |-> "returned", node |-> v]

PositionsInit ==
    /\ MapInit(MaxColumns, MaxRows)
    /\ PathIdle
    /\ NoFog
    /\ lookup_call \in [op : {"none"}, arg : Positions(MaxColumns, MaxRows)]
    /\ lookup_result = [status |-> "none", node |-> <<>>]
    /\ NoBuilding
    /\ NoCampaign
    /\ SoundPlayer
    /\ NoWar
    /\ NoSave
    /\ Mission
    /\ UnitsProducer

PositionToGrid ==
    /\ lookup_call.op = "none"
    /\ lookup_call' = [lookup_call EXCEPT !.op = "position_to_grid"]
    /\ lookup_result' = Value(position_to_grid(lookup_call.arg[1], lookup_call.arg[2]))
    /\ UNCHANGED <<mapVars, pathVars, fogVars, besidesLookup>>

NormalizePosition ==
    /\ lookup_call.op = "none"
    /\ lookup_call' = [lookup_call EXCEPT !.op = "normalize_position"]
    /\ lookup_result' = Value(normalize_position(lookup_call.arg[1], lookup_call.arg[2]))
    /\ UNCHANGED <<mapVars, pathVars, fogVars, besidesLookup>>

GridToPosition ==
    \E grid \in (-1..columns) \X (-1..rows) :
        /\ lookup_call.op = "none"
        /\ lookup_call' = [op |-> "grid_to_position", arg |-> grid]
        /\ lookup_result' = Value(grid_to_position(grid))
        /\ UNCHANGED <<mapVars, pathVars, fogVars, besidesLookup>>

PositionToNodeOnce ==
    /\ lookup_call.op = "none"
    /\ lookup_call' = [lookup_call EXCEPT !.op = "position_to_node"]
    /\ lookup_result' = position_to_node(lookup_call.arg[1], lookup_call.arg[2])
    /\ UNCHANGED <<mapVars, pathVars, fogVars, besidesLookup>>

PositionsNext == PositionToGrid \/ NormalizePosition \/ GridToPosition \/ PositionToNodeOnce

SpecPositions == PositionsInit /\ [][PositionsNext]_vars

(***************************************************************************)
(* SpecBuilding: Buildings are constructed and killed on the map of        *)
(* MaxColumns x MaxRows nodes on which no unit or one unit stands.  A      *)
(* Building is given by the left and bottom edge of its sprite, at every   *)
(* half tile from half a tile before the map, and by its width and height  *)
(* of one or two tiles.  The nodes are those of map/map.py, which is not   *)
(* among the sources: node.building = value is modelled as the occupancy   *)
(* setter of src/map.py, which writes the flag of the node and the table   *)
(* of the map.  The sectors of a Building are left out with it.            *)
(***************************************************************************)
Buildings == {"b1", "b2"}

\* the grids under the sprite: range(min_x_grid, max_x_grid + 1) x
\* range(min_y_grid, max_y_grid)
grids_under(left, bottom, right, top) ==
    LET min_x_grid == left \div TILE_WIDTH
        min_y_grid == bottom \div TILE_HEIGHT
        max_x_grid == right \div TILE_WIDTH
        max_y_grid == top \div TILE_HEIGHT
    IN  (min_x_grid..max_x_grid) \X (min_y_grid..(max_y_grid - 1))

\* node.building = value for every node of occupied
building_setter(occupied, value) ==
    /\ buildings' = [g \in DOMAIN buildings \cup occupied |->
                         IF g \in occupied THEN value ELSE buildings[g]]
    /\ _building_id' = [g \in nodes |->
                            IF g \in occupied THEN value ELSE _building_id[g]]
    /\ building_written' = [g \in nodes |->
                                IF g \in occupied THEN value ELSE building_written[g]]

\* [self.block_map_node(node) for node in occupied_nodes]
block_map_node(occupied, self) == building_setter(occupied, self)

\* unblock_map_node as it would be if it left the node as it is
unblock_map_node_leaking(occupied) ==
    UNCHANGED <<buildings, _building_id, building_written>>

\* for node in self.occupied_nodes: self.unblock_map_node(node)
unblock_map_node(occupied) == building_setter(occupied, None)

\* block_map_nodes: grid_to_node raises KeyError for a grid outside the map
\* before any node is blocked, and then no Building is constructed
block_map_nodes(self, left, bottom, right, top) ==
    LET occupied == grids_under(left, bottom, right, top)
    IN  IF occupied \subseteq DOMAIN map_nodes
        THEN /\ block_map_node(occupied, self)
             /\ occupied_nodes' = (self :> occupied) @@ occupied_nodes
        ELSE UNCHANGED <<buildings, _building_id, building_written, occupied_nodes>>

\* Building.kill
kill(self) ==
    /\ unblock_map_node(occupied_nodes[self])
    /\ killed' = killed \cup {self}

Edges(tiles, side) == {k * (side \div 2) : k \in -1..(2 * tiles - 1)}

Sizes(side) == {side, 2 * side}

\* units stand on the nodes of standing
Standing(standing) ==
    /\ units = [g \in standing |-> "u1"]
    /\ buildings = EmptyDict
    /\ _unit_id = [g \in nodes |-> IF g \in standing THEN "u1" ELSE None]
    /\ _building_id = [g \in nodes |-> None]
    /\ unit_written = _unit_id
    /\ building_written = _building_id

BuildingInit ==
    /\ Generated(MaxColumns, MaxRows)
    /\ columns = MaxColumns
    /\ rows = MaxRows
    /\ costs = calculate_distances_between_nodes(MaxColumns, MaxRows)
    /\ \E standing \in {{}} \cup {{g} : g \in GridNodes(MaxColumns, MaxRows)} :
           Standing(standing)
    /\ PathIdle
    /\ Untouched
    /\ NoFog

BuildingNew ==
    \E self \in Buildings \ DOMAIN occupied_nodes :
        \E left \in Edges(columns, TILE_WIDTH), bottom \in Edges(rows, TILE_HEIGHT),
           w \in Sizes(TILE_WIDTH), h \in Sizes(TILE_HEIGHT) :
            /\ block_map_nodes(self, left, bottom, left + w, bottom + h)
            /\ UNCHANGED <<shapeVars, columns, rows, costs, units, _unit_id,
                           unit_written, killed>>
            /\ UNCHANGED <<pathVars, fogVars, besidesBuilding>>

BuildingKill ==
    \E self \in DOMAIN occupied_nodes \ killed :
        /\ kill(self)
        /\ UNCHANGED <<shapeVars, columns, rows, costs, units, _unit_id,
                       unit_written, occupied_nodes>>
        /\ UNCHANGED <<pathVars, fogVars, besidesBuilding>>

BuildingNext == BuildingNew \/ BuildingKill

SpecBuilding == BuildingInit /\ [][BuildingNext]_vars

(***************************************************************************)
(* SpecCampaign: a Campaign of up to MaxMissions missions is constructed   *)
(* and updated with finished missions of every index from -1 to the number *)
(* of its missions.  A mission is named by its place in missions_names;    *)
(* the dict missions is a function from the indexes to <<name, status>>.   *)
(***************************************************************************)
missions_names(n) == [i \in 1..n |-> <<"mission", i - 1>>]

\* {i: [name, not i] for i, name in enumerate(missions_names)}
Campaign(name, names) ==
    /\ campaign_name' = name
    /\ missions' = [i \in 0..(Len(names) - 1) |-> <<names[i + 1], i = 0>>]

RECURSIVE playable_from(_)
playable_from(i) ==
    IF i \notin DOMAIN missions THEN <<>>
    ELSE (IF missions[i][2] THEN <<missions[i][1]>> ELSE <<>>) \o playable_from(i + 1)

\* [name for (name, status) in self.missions.values() if status]
playable_missions == playable_from(0)

\* update as it would be without the except clause
campaign_update_uncaught(index) ==
    IF index + 1 \in DOMAIN missions
    THEN /\ missions' = [missions EXCEPT ![index + 1][2] = TRUE]
         /\ update_outcome' = "returned"
    ELSE /\ update_outcome' = "KeyError"
         /\ UNCHANGED missions

\* Campaign.update(finished_mission), index = finished_mission.index
campaign_update(index) ==
    IF index + 1 \in DOMAIN missions
    THEN /\ missions' = [missions EXCEPT ![index + 1][2] = TRUE]
         /\ update_outcome' = "returned"
    ELSE /\ update_outcome' = "returned"
         /\ UNCHANGED missions

CampaignInit ==
    /\ MapInit(1, 1)
    /\ PathIdle
    /\ Untouched
    /\ NoFog

CampaignNew ==
    /\ campaign_name = None
    /\ \E n \in 0..MaxMissions : Campaign("campaign", missions_names(n))
    /\ UNCHANGED <<finished_missions, update_outcome>>
    /\ UNCHANGED <<mapVars, pathVars, fogVars, besidesCampaign>>

CampaignUpdate ==
    /\ campaign_name # None
    /\ \E index \in -1..Cardinality(DOMAIN missions) :
           /\ campaign_update(index)
           /\ finished_missions' = finished_missions \cup {index}
    /\ UNCHANGED campaign_name
    /\ UNCHANGED <<mapVars, pathVars, fogVars, besidesCampaign>>

CampaignNext == CampaignNew \/ CampaignUpdate

SpecCampaign == CampaignInit /\ [][CampaignNext]_vars

(***************************************************************************)
(* SpecTriggers: a Mission gets players and triggers, and                  *)
(* evaluate_triggers is called with any of its triggers fulfilled.  A      *)
(* Trigger is known by its name, the player it belongs to, whether it is   *)
(* optional and its victory points; its events change nothing of the       *)
(* Mission.  A player is known by its id.                                  *)
(***************************************************************************)
TriggerNames == {"t1", "t2", "t3"}

Trigger(name) ==
    CASE name = "t1" -> [player |-> "p1", optional |-> FALSE, victory_points |-> 1]
      [] name = "t2" -> [player |-> "p2", optional |-> FALSE, victory_points |-> 2]
      [] name = "t3" -> [player |-> "p2", optional |-> TRUE, victory_points |-> 1]

\* list.remove(x): the list without the first x
RECURSIVE remove(_, _)
remove(list, x) ==
    IF list = <<>> THEN <<>>
    ELSE IF Head(list) = x THEN Tail(list)
    ELSE <<Head(list)>> \o remove(Tail(list), x)

\* for trigger in (c for c in self.triggers if c.fulfilled()): the generator
\* reads self.triggers by index, i is the index it reads next, f the
\* triggers that are fulfilled and done the triggers executed so far
RECURSIVE evaluate_from(_, _, _, _)
evaluate_from(list, i, f, done) ==
    IF i > Len(list) THEN [triggers |-> list, executed |-> done]
    ELSE IF list[i] \in f
         THEN evaluate_from(remove(list, list[i]), i + 1, f, Append(done, list[i]))
         ELSE evaluate_from(list, i + 1, f, done)

evaluate_triggers(f) == evaluate_from(triggers, 1, f, <<>>)

end_mission(w) ==
    /\ ended' = TRUE
    /\ winner' = w
    /\ ending' = w

\* the call returns without a call of end_mission
NotEnded ==
    /\ UNCHANGED <<ended, winner>>
    /\ ending' = None

\* check_victory_points as it would be without "> 0"
enough_points_of_any(points, required) == points >= required

\* points >= self.required_victory_points[player_id] > 0
enough_points(points, required) == points >= required /\ required > 0

check_victory_points(player_id) ==
    IF enough_points(victory_points'[player_id], required_victory_points[player_id])
    THEN end_mission(player_id)
    ELSE NotEnded

\* check_for_last_survivor after self.players.discard(player.id) has left
\* the players remaining
check_for_last_survivor(remaining) ==
    IF Cardinality(remaining) = 1
    THEN \E winner_id \in remaining :
             /\ players' = remaining \ {winner_id}
             /\ end_mission(winner_id)
    ELSE /\ players' = remaining
         /\ NotEnded

\* self.players.add(player.id) and the three assignments after it, for
\* every player of items
add_players(items) ==
    /\ players' = players \cup items
    /\ victory_points' = [p \in Players |-> IF p \in items THEN 0 ELSE victory_points[p]]
    /\ required_victory_points' =
           [p \in Players |-> IF p \in items THEN 0 ELSE required_victory_points[p]]

\* the points the players need after add_triggers(trigger)
required_with(required, trigger) ==
    IF ~Trigger(trigger).optional /\ Trigger(trigger).victory_points # 0
    THEN [required EXCEPT ![Trigger(trigger).player] = @ + Trigger(trigger).victory_points]
    ELSE required

TriggersInit ==
    /\ MapInit(1, 1)
    /\ PathIdle
    /\ Untouched
    /\ NoFog

AddPlayers ==
    \E items \in SUBSET Players :
        /\ add_players(items)
        /\ NotEnded
        /\ mission_call' = [op |-> "add_players", arg |-> items]
        /\ UNCHANGED <<triggers, fulfilled, executed>>
        /\ UNCHANGED <<mapVars, pathVars, fogVars, besidesMission>>

AddTriggers ==
    \E trigger \in TriggerNames \ {triggers[i] : i \in DOMAIN triggers} :
        /\ required_victory_points[Trigger(trigger).player]
               + Trigger(trigger).victory_points <= MaxPoints
        /\ triggers' = Append(triggers, trigger)
        /\ required_victory_points' = required_with(required_victory_points, trigger)
        /\ NotEnded
        /\ mission_call' = [op |-> "add_triggers", arg |-> trigger]
        /\ UNCHANGED <<players, victory_points, fulfilled, executed>>
        /\ UNCHANGED <<mapVars, pathVars, fogVars, besidesMission>>

EvaluateTriggers ==
    \E f \in SUBSET TriggerNames :
        /\ triggers' = evaluate_triggers(f).triggers
        /\ executed' = evaluate_triggers(f).executed
        /\ fulfilled' = f
        /\ NotEnded
        /\ mission_call' = [op |-> "evaluate_triggers", arg |-> <<>>]
        /\ UNCHANGED <<players, victory_points, required_victory_points>>
        /\ UNCHANGED <<mapVars, pathVars, fogVars, besidesMission>>

TriggersNext == AddPlayers \/ AddTriggers \/ EvaluateTriggers

SpecTriggers == TriggersInit /\ [][TriggersNext]_vars

(***************************************************************************)
(* SpecMission: the Mission has been set up with add_players for the three *)
(* players and then add_triggers for the three triggers; from there on     *)
(* players gain victory points and are eliminated and evaluate_triggers is *)
(* called with any of the triggers fulfilled.                              *)
(***************************************************************************)
MissionInit ==
    /\ MapInit(1, 1)
    /\ PathIdle
    /\ NoFog
    /\ NoLookup
    /\ NoBuilding
    /\ NoCampaign
    /\ SoundPlayer
    /\ NoWar
    /\ NoSave
    /\ UnitsProducer
    /\ triggers = <<"t1", "t2", "t3">>
    /\ players = Players
    /\ victory_points = [p \in Players |-> 0]
    /\ required_victory_points =
           required_with(required_with(required_with([p \in Players |-> 0], "t1"), "t2"),
                         "t3")
    /\ ended = FALSE
    /\ winner = None
    /\ mission_call = [op |-> "add_triggers", arg |-> "t3"]
    /\ ending = None
    /\ fulfilled = {}
    /\ executed = <<>>

EliminatePlayer ==
    \E player \in Players :
        /\ check_for_last_survivor(players \ {player})
        /\ mission_call' = [op |-> "eliminate_player", arg |-> player]
        /\ UNCHANGED <<triggers, victory_points, required_victory_points, fulfilled,
                       executed>>
        /\ UNCHANGED <<mapVars, pathVars, fogVars, besidesMission>>

AddVictoryPoints ==
    \E player \in Players, points \in 0..1 :
        /\ victory_points[player] + points <= MaxPoints
        /\ victory_points' = [victory_points EXCEPT ![player] = @ + points]
        /\ check_victory_points(player)
        /\ mission_call' = [op |-> "add_victory_points", arg |-> player]
        /\ UNCHANGED <<triggers, players, required_victory_points, fulfilled, executed>>
        /\ UNCHANGED <<mapVars, pathVars, fogVars, besidesMission>>

\* evaluate_triggers with the history of the triggers left as it is
MissionEvaluateTriggers ==
    \E f \in SUBSET TriggerNames :
        /\ triggers' = evaluate_triggers(f).triggers
        /\ NotEnded
        /\ mission_call' = [op |-> "evaluate_triggers", arg |-> <<>>]
        /\ UNCHANGED <<players, victory_points, required_victory_points, fulfilled,
                       executed>>
        /\ UNCHANGED <<mapVars, pathVars, fogVars, besidesMission>>

MissionNext == EliminatePlayer \/ AddVictoryPoints \/ MissionEvaluateTriggers

SpecMission == MissionInit /\ [][MissionNext]_vars

(***************************************************************************)
(* SpecProduction: a UnitsProducer that produces three kinds of units is   *)
(* asked for them and for a unit it does not produce, is updated once in   *)
(* every frame (Building.on_update) and has its production cancelled.  A   *)
(* product is known by its class; the progress is counted in whole per     *)
(* cent.  production_queue is written from its left end to its right end.  *)
(* The calls that would make the queue longer than MaxQueue are left out.  *)
(***************************************************************************)
produced_units == {"soldier", "tank", "truck"}

products == produced_units \cup {"jeep"}

\* product.production_per_frame
per_frame(product) ==
    CASE product = "soldier" -> 50
      [] product = "tank" -> 34
      [] product = "truck" -> 25
      [] OTHER -> 20

\* start_production, _start_production and
\* set_production_progress_and_speed
start_production(product) ==
    IF product \notin produced_units
    THEN UNCHANGED productionVars
    ELSE /\ production_queue' = <<product>> \o production_queue
         /\ production_progress' = 0
         /\ production_per_frame' = per_frame(product)
         /\ UNCHANGED is_producing

\* _toggle_production, self.production_progress = 0.0 and
\* self.production_queue.pop()
finish_production ==
    /\ is_producing' = ~is_producing
    /\ production_progress' = 0
    /\ production_queue' = SubSeq(production_queue, 1, Len(production_queue) - 1)
    /\ UNCHANGED production_per_frame

update_units_production ==
    IF is_producing
    THEN IF production_progress + production_per_frame >= 100
         THEN finish_production
         ELSE /\ production_progress' = production_progress + production_per_frame
              /\ UNCHANGED <<production_queue, production_per_frame, is_producing>>
    ELSE IF production_queue # <<>>
         THEN start_production(production_queue[Len(production_queue)])
         ELSE UNCHANGED productionVars

cancel_production ==
    /\ is_producing' = FALSE
    /\ production_progress' = 0
    /\ production_queue' = <<>>
    /\ UNCHANGED production_per_frame

ProductionInit ==
    /\ MapInit(1, 1)
    /\ PathIdle
    /\ Untouched
    /\ NoFog

StartProduction ==
    \E product \in products :
        /\ Len(production_queue) < MaxQueue
        /\ start_production(product)
        /\ UNCHANGED <<mapVars, pathVars, fogVars, besidesProduction>>

UpdateUnitsProduction ==
    /\ Len(production_queue) < MaxQueue
    /\ update_units_production
    /\ UNCHANGED <<mapVars, pathVars, fogVars, besidesProduction>>

CancelProduction ==
    /\ cancel_production
    /\ UNCHANGED <<mapVars, pathVars, fogVars, besidesProduction>>

ProductionNext == StartProduction \/ UpdateUnitsProduction \/ CancelProduction

\* on_update of a Building that lives calls update_production in every frame
SpecProduction ==
    ProductionInit /\ [][ProductionNext]_vars /\ WF_vars(UpdateUnitsProduction)

(***************************************************************************)
(* SpecSound: the methods of a SoundPlayer with two preloaded sounds,      *)
(* called with their names and with a name that is not preloaded.  The     *)
(* volumes are left out.                                                   *)
(***************************************************************************)
sounds == {"theme", "march"}

Names == sounds \cup {"absent"}

\* the dict d without the key name
Without(d, name) == [n \in DOMAIN d \ {name} |-> d[n]]

\* the dict d with player.method() called for the players of the names of
\* called
Called(d, called, state) == [n \in DOMAIN d |-> IF n \in called THEN state ELSE d[n]]

\* stop_sound(name) on the dict played with the music music: the dict and
\* the music it leaves
stop_sound(played, music, name) ==
    IF name \in DOMAIN played
    THEN [played |-> Without(played, name),
          music |-> IF music = name THEN None ELSE music,
          touched |-> {name}]
    ELSE [played |-> played, music |-> music, touched |-> {}]

\* play_sound(name, loop) on the dict played: the dict it leaves
play_sound(played, name, loop) ==
    IF ~_sound_on THEN played
    ELSE IF name \in sounds /\ loop THEN (name :> "playing") @@ played
    ELSE played

PlaySound ==
    \E name \in Names, loop \in BOOLEAN :
        /\ currently_played' = play_sound(currently_played, name, loop)
        /\ touched' = IF _sound_on /\ loop /\ name \in sounds THEN {name} ELSE {}
        /\ sound_call' = "play_sound"
        /\ UNCHANGED <<current_music, _sound_on, _music_on>>
        /\ UNCHANGED <<mapVars, pathVars, fogVars, besidesSound>>

PlayMusic ==
    \E name \in Names :
        /\ IF _music_on
           THEN LET stopped == stop_sound(currently_played, current_music, current_music)
                IN  /\ current_music' = name
                    /\ currently_played' = play_sound(stopped.played, name, TRUE)
                    /\ touched' = stopped.touched \cup
                           (IF _sound_on /\ name \in sounds THEN {name} ELSE {})
           ELSE UNCHANGED <<current_music, currently_played, touched>>
        /\ sound_call' = "play_music"
        /\ UNCHANGED <<_sound_on, _music_on>>
        /\ UNCHANGED <<mapVars, pathVars, fogVars, besidesSound>>

StopSound ==
    \E name \in Names :
        /\ LET stopped == stop_sound(currently_played, current_music, name)
           IN  /\ currently_played' = stopped.played
               /\ current_music' = stopped.music
               /\ touched' = stopped.touched
        /\ sound_call' = "stop_sound"
        /\ UNCHANGED <<_sound_on, _music_on>>
        /\ UNCHANGED <<mapVars, pathVars, fogVars, besidesSound>>

MusicOn ==
    \E value \in BOOLEAN :
        /\ _music_on' = value
        /\ touched' = DOMAIN currently_played \cap {current_music}
        /\ currently_played' = Called(currently_played, touched',
                                       IF value THEN "playing" ELSE "paused")
        /\ sound_call' = "music_on"
        /\ UNCHANGED <<current_music, _sound_on>>
        /\ UNCHANGED <<mapVars, pathVars, fogVars, besidesSound>>

\* SoundPlayer.pause
pause ==
    /\ _sound_on' = FALSE
    /\ touched' = DOMAIN currently_played
    /\ currently_played' = Called(currently_played, touched', "paused")
    /\ UNCHANGED <<current_music, _music_on>>

\* SoundPlayer.play
play ==
    /\ _sound_on' = TRUE
    /\ touched' = DOMAIN currently_played
    /\ currently_played' = Called(currently_played, touched', "playing")
    /\ UNCHANGED <<current_music, _music_on>>

\* SoundPlayer.clear
clear ==
    /\ touched' = DOMAIN currently_played
    /\ currently_played' = Called(currently_played, touched', "deleted")
    /\ UNCHANGED <<current_music, _sound_on, _music_on>>

Pause ==
    /\ pause
    /\ sound_call' = "pause"
    /\ UNCHANGED <<mapVars, pathVars, fogVars, besidesSound>>

Play ==
    /\ play
    /\ sound_call' = "play"
    /\ UNCHANGED <<mapVars, pathVars, fogVars, besidesSound>>

Clear ==
    /\ clear
    /\ sound_call' = "clear"
    /\ UNCHANGED <<mapVars, pathVars, fogVars, besidesSound>>

SoundInit ==
    /\ MapInit(1, 1)
    /\ PathIdle
    /\ Untouched
    /\ NoFog

SoundNext == PlaySound \/ PlayMusic \/ StopSound \/ MusicOn \/ Pause \/ Play \/ Clear

SpecSound == SoundInit /\ [][SoundNext]_vars

(***************************************************************************)
(* SpecEnemies: get_enemies for 0, for every power of two up to 2 to the   *)
(* power of MaxPower and for every sum of two of them.  An int is a pair   *)
(* <<high, low>> that stands for high * Base + low, with low in 0..Base-1, *)
(* since the ids go beyond 32 bits.                                        *)
(***************************************************************************)
Base == 2 ^ 16

Power(k) == IF k < 16 THEN <<0, 2 ^ k>> ELSE <<2 ^ (k - 16), 0>>

\* x < y
Less(x, y) == x[1] < y[1] \/ (x[1] = y[1] /\ x[2] < y[2])

\* x >> 1
ShiftRight(x) == <<x[1] \div 2, (x[1] % 2) * (Base \div 2) + x[2] \div 2>>

\* x - y
Minus(x, y) ==
    IF x[2] >= y[2] THEN <<x[1] - y[1], x[2] - y[2]>>
    ELSE <<x[1] - y[1] - 1, x[2] - y[2] + Base>>

\* x + y
Plus(x, y) ==
    IF x[2] + y[2] < Base THEN <<x[1] + y[1], x[2] + y[2]>>
    ELSE <<x[1] + y[1] + 1, x[2] + y[2] - Base>>

\* index = 8589934592
first_index == Power(33)

\* the loop of get_enemies as it would be with while index > 4
RECURSIVE enemies_index_above_four(_, _)
enemies_index_above_four(w, index) ==
    IF Less(<<0, 4>>, index) /\ Less(w, index)
    THEN enemies_index_above_four(w, ShiftRight(index))
    ELSE index

\* while index > 2: if war < index: index = index >> 1, else: break
RECURSIVE enemies_index(_, _)
enemies_index(w, index) ==
    IF Less(<<0, 2>>, index) /\ Less(w, index)
    THEN enemies_index(w, ShiftRight(index))
    ELSE index

get_enemies(w) ==
    LET index == enemies_index(w, first_index)
    IN  <<index, Minus(w, index)>>

Ids == {Power(k) : k \in 0..MaxPower}

Wars == {<<0, 0>>} \cup Ids \cup {Plus(a, b) : a \in Ids, b \in Ids}

EnemiesInit ==
    /\ MapInit(1, 1)
    /\ PathIdle
    /\ NoFog
    /\ NoLookup
    /\ NoBuilding
    /\ NoCampaign
    /\ SoundPlayer
    /\ war \in Wars
    /\ enemies = <<>>
    /\ NoSave
    /\ Mission
    /\ UnitsProducer

GetEnemies ==
    /\ enemies = <<>>
    /\ enemies' = get_enemies(war)
    /\ UNCHANGED war
    /\ UNCHANGED <<mapVars, pathVars, fogVars, besidesEnemies>>

EnemiesNext == GetEnemies

SpecEnemies == EnemiesInit /\ [][EnemiesNext]_vars

(***************************************************************************)
(* SpecDetour: find_path on the square map of side DetourSide on which     *)
(* an L-shaped wall, or a part of it, is occupied: the nodes of row 1 in   *)
(* the columns 0..2 and the node above the wall's right end.               *)
(***************************************************************************)
Wall == {<<0, 1>>, <<1, 1>>, <<2, 1>>, <<2, 2>>}

DetourInit ==
    /\ \E occupied \in SUBSET (Wall \cap GridNodes(DetourSide, DetourSide)) :
           OccupiedMapInit(DetourSide, DetourSide, occupied)
    /\ PathIdle
    /\ Untouched
    /\ NoFog

SpecDetour == DetourInit /\ [][PathNext]_vars

(***************************************************************************)
(* FogOfWar                                                                *)
(***************************************************************************)
\* reveal_nodes as it would be if the set of a call replaced what the calls
\* before it had reported
reveal_nodes_replacing(revealed) ==
    /\ visible' = revealed
    /\ UNCHANGED <<editor_mode, unexplored, explored, grids_to_sprites, fog_sprite_lists>>

\* self.visible.update(revealed)
\* reveal_nodes as it would be if it removed the sprites of the revealed
\* grids at once
reveal_nodes_uncovering(revealed) ==
    /\ visible' = visible \cup revealed
    /\ grids_to_sprites' = [g \in DOMAIN grids_to_sprites \ revealed |-> grids_to_sprites[g]]
    /\ UNCHANGED <<editor_mode, unexplored, explored, fog_sprite_lists>>

reveal_nodes(revealed) ==
    /\ visible' = visible \cup revealed
    /\ UNCHANGED <<editor_mode, unexplored, explored, grids_to_sprites, fog_sprite_lists>>

\* the sprites of the grids of the set grds, with texture tex, that belong
\* to the sprite list of block b
BlockSprites(grds, tex, b) == {<<g, tex[g]>> : g \in {u \in grds : FogBlock(u) = b}}

\* update as it would be if only the dark sprites of the visible grids were
\* removed
update_dark_only ==
    LET revealed == {g \in visible \cap DOMAIN grids_to_sprites :
                        grids_to_sprites[g] = "DARK"}
        kept == [g \in DOMAIN grids_to_sprites \ revealed |-> grids_to_sprites[g]]
        fog == explored \ visible
        dimmed == fog \ DOMAIN kept
    IN  /\ grids_to_sprites' = [g \in dimmed |-> "FOG"] @@ kept
        /\ fog_sprite_lists' =
               [b \in DOMAIN fog_sprite_lists |->
                   (fog_sprite_lists[b] \ BlockSprites(revealed, grids_to_sprites, b))
                       \cup BlockSprites(dimmed, [g \in dimmed |-> "FOG"], b)]
        /\ explored' = explored \cup visible
        /\ unexplored' = unexplored \ visible
        /\ visible' = {}
        /\ UNCHANGED editor_mode

\* update as it would be if it emptied unexplored where it empties visible
update_clears_unexplored ==
    LET revealed == visible \cap DOMAIN grids_to_sprites
        kept == [g \in DOMAIN grids_to_sprites \ revealed |-> grids_to_sprites[g]]
        fog == explored \ visible
        dimmed == fog \ DOMAIN kept
    IN  /\ grids_to_sprites' = [g \in dimmed |-> "FOG"] @@ kept
        /\ fog_sprite_lists' =
               [b \in DOMAIN fog_sprite_lists |->
                   (fog_sprite_lists[b] \ BlockSprites(revealed, grids_to_sprites, b))
                       \cup BlockSprites(dimmed, [g \in dimmed |-> "FOG"], b)]
        /\ explored' = explored \cup visible
        /\ unexplored' = {}
        /\ visible' = {}
        /\ UNCHANGED editor_mode

\* update as it would be if explored were replaced by visible, not extended
update_replaces_explored ==
    LET revealed == visible \cap DOMAIN grids_to_sprites
        kept == [g \in DOMAIN grids_to_sprites \ revealed |-> grids_to_sprites[g]]
        fog == explored \ visible
        dimmed == fog \ DOMAIN kept
    IN  /\ grids_to_sprites' = [g \in dimmed |-> "FOG"] @@ kept
        /\ fog_sprite_lists' =
               [b \in DOMAIN fog_sprite_lists |->
                   (fog_sprite_lists[b] \ BlockSprites(revealed, grids_to_sprites, b))
                       \cup BlockSprites(dimmed, [g \in dimmed |-> "FOG"], b)]
        /\ explored' = visible
        /\ unexplored' = unexplored \ visible
        /\ visible' = {}
        /\ UNCHANGED editor_mode

\* update as it would be without self.unexplored.difference_update(visible)
update_keeps_unexplored ==
    LET revealed == visible \cap DOMAIN grids_to_sprites
        kept == [g \in DOMAIN grids_to_sprites \ revealed |-> grids_to_sprites[g]]
        fog == explored \ visible
        dimmed == fog \ DOMAIN kept
    IN  /\ grids_to_sprites' = [g \in dimmed |-> "FOG"] @@ kept
        /\ fog_sprite_lists' =
               [b \in DOMAIN fog_sprite_lists |->
                   (fog_sprite_lists[b] \ BlockSprites(revealed, grids_to_sprites, b))
                       \cup BlockSprites(dimmed, [g \in dimmed |-> "FOG"], b)]
        /\ explored' = explored \cup visible
        /\ unexplored' = unexplored
        /\ visible' = {}
        /\ UNCHANGED editor_mode

\* update as it would be if no grey fog sprite were made
update_without_fog ==
    LET revealed == visible \cap DOMAIN grids_to_sprites
        kept == [g \in DOMAIN grids_to_sprites \ revealed |-> grids_to_sprites[g]]
    IN  /\ grids_to_sprites' = kept
        /\ fog_sprite_lists' =
               [b \in DOMAIN fog_sprite_lists |->
                   fog_sprite_lists[b] \ BlockSprites(revealed, grids_to_sprites, b)]
        /\ explored' = explored \cup visible
        /\ unexplored' = unexplored \ visible
        /\ visible' = {}
        /\ UNCHANGED editor_mode

update ==
    LET revealed == visible \cap DOMAIN grids_to_sprites
        kept == [g \in DOMAIN grids_to_sprites \ revealed |-> grids_to_sprites[g]]
        fog == explored \ visible
        dimmed == fog \ DOMAIN kept
    IN  /\ grids_to_sprites' = [g \in dimmed |-> "FOG"] @@ kept
        /\ fog_sprite_lists' =
               [b \in DOMAIN fog_sprite_lists |->
                   (fog_sprite_lists[b] \ BlockSprites(revealed, grids_to_sprites, b))
                       \cup BlockSprites(dimmed, [g \in dimmed |-> "FOG"], b)]
        /\ explored' = explored \cup visible
        /\ unexplored' = unexplored \ visible
        /\ visible' = {}
        /\ UNCHANGED editor_mode

\* what is drawn over a grid: the dark sprite, the grey fog sprite or nothing
FogState(grid) ==
    IF grid \notin DOMAIN grids_to_sprites THEN "CLEAR"
    ELSE IF grids_to_sprites[grid] = "DARK" THEN "UNSEEN"
    ELSE "DIMMED"

(***************************************************************************)
(* SpecFog: observers report sets of grids and update reconciles them, on  *)
(* a map of one row of FogColumns tiles.  The grids reported are the tiles *)
(* of the map and the grid to the right of the last tile, which is no tile *)
(* of the map and lies in the block of sprite list (0, 0).                 *)
(***************************************************************************)
OffMap == <<columns, 0>>

Reportable == nodes \cup {OffMap}

FogSpecInit ==
    /\ MapInit(FogColumns, 1)
    /\ PathIdle
    /\ Untouched
    /\ FogInit(FogColumns, 1)
    /\ fog_before = [c \in Reportable |-> FogState(c)]
    /\ calls = <<>>
    /\ frame_open = FALSE

RevealNodes ==
    \E revealed \in SUBSET Reportable :
        /\ reveal_nodes(revealed)
        /\ frame_reports' = frame_reports \cup revealed
        /\ UNCHANGED <<last_frame_reports, earlier_reports, fog_before, calls, frame_open>>
        /\ UNCHANGED <<mapVars, pathVars, otherVars>>

Update ==
    /\ update
    /\ frame_reports' = {}
    /\ last_frame_reports' = frame_reports
    /\ earlier_reports' = earlier_reports \cup frame_reports
    /\ fog_before' = [c \in Reportable |-> FogState(c)]
    /\ UNCHANGED <<calls, frame_open, mapVars, pathVars, otherVars>>

FogNext == RevealNodes \/ Update

SpecFog == FogSpecInit /\ [][FogNext]_vars

(***************************************************************************)
(* SpecSave: the FogOfWar of a map of one row of SaveColumns tiles is      *)
(* reported to, updated, saved with __getstate__ and restored with         *)
(* __setstate__ from the state saved last.  The state is pickled when it   *)
(* is returned, so what is saved is a copy of the three sets.  The grids    *)
(* reported are tiles of the map.                                          *)
(***************************************************************************)
\* saved_fow = self.__dict__.copy() without map_grids, grids_to_sprites and
\* fog_sprite_lists
getstate ==
    [unexplored |-> unexplored, visible |-> visible, explored |-> explored]

\* self.__dict__.update(state), self.grids_to_sprites = {} and
\* self.fog_sprite_lists = self.create_dark_sprites()
setstate(state) ==
    /\ unexplored' = state.unexplored
    /\ visible' = state.visible
    /\ explored' = state.explored
    /\ grids_to_sprites' =
           IF editor_mode THEN EmptyDict ELSE [g \in state.unexplored |-> "DARK"]
    /\ fog_sprite_lists' =
           create_dark_sprites(columns, rows,
               IF editor_mode THEN {} ELSE state.unexplored)
    /\ UNCHANGED editor_mode

fogHistory == <<frame_reports, last_frame_reports, earlier_reports, fog_before,
                calls, frame_open>>

SaveInit ==
    /\ MapInit(SaveColumns, 1)
    /\ PathIdle
    /\ Untouched
    /\ FogInit(SaveColumns, 1)
    /\ fog_before = EmptyDict
    /\ calls = <<>>
    /\ frame_open = FALSE

SaveRevealNodes ==
    \E revealed \in SUBSET nodes :
        /\ reveal_nodes(revealed)
        /\ fog_call' = "reveal_nodes"
        /\ UNCHANGED <<saved_fow, fog_saved, fogHistory>>
        /\ UNCHANGED <<mapVars, pathVars, besidesSave>>

SaveUpdate ==
    /\ update
    /\ fog_call' = "update"
    /\ UNCHANGED <<saved_fow, fog_saved, fogHistory>>
    /\ UNCHANGED <<mapVars, pathVars, besidesSave>>

GetState ==
    /\ saved_fow' = <<getstate>>
    /\ fog_saved' = [c \in nodes |-> FogState(c)]
    /\ fog_call' = "__getstate__"
    /\ UNCHANGED <<editor_mode, unexplored, visible, explored, grids_to_sprites,
                   fog_sprite_lists, fogHistory>>
    /\ UNCHANGED <<mapVars, pathVars, besidesSave>>

SetState ==
    /\ saved_fow # <<>>
    /\ setstate(saved_fow[1])
    /\ fog_call' = "__setstate__"
    /\ UNCHANGED <<saved_fow, fog_saved, fogHistory>>
    /\ UNCHANGED <<mapVars, pathVars, besidesSave>>

SaveNext == SaveRevealNodes \/ SaveUpdate \/ GetState \/ SetState

SpecSave == SaveInit /\ [][SaveNext]_vars

(***************************************************************************)
(* SpecObservers: as SpecFog on a map of one row of ObserverColumns tiles, *)
(* with at most MaxObservers reveal_nodes calls between two updates, each  *)
(* call recorded with its argument, a set of tiles of the map.             *)
(***************************************************************************)
ObserversInit ==
    /\ MapInit(ObserverColumns, 1)
    /\ PathIdle
    /\ Untouched
    /\ FogInit(ObserverColumns, 1)
    /\ fog_before = [c \in Reportable |-> FogState(c)]
    /\ calls = <<>>
    /\ frame_open = FALSE

ObserverReveals ==
    \E revealed \in SUBSET nodes :
        /\ frame_open => Len(calls) < MaxObservers
        /\ reveal_nodes(revealed)
        /\ frame_reports' = frame_reports \cup revealed
        /\ calls' = IF frame_open THEN Append(calls, revealed) ELSE <<revealed>>
        /\ frame_open' = TRUE
        /\ UNCHANGED <<last_frame_reports, earlier_reports, fog_before, mapVars, pathVars,
                       otherVars>>

FrameUpdate ==
    /\ update
    /\ frame_reports' = {}
    /\ last_frame_reports' = frame_reports
    /\ earlier_reports' = earlier_reports \cup frame_reports
    /\ fog_before' = [c \in Reportable |-> FogState(c)]
    /\ calls' = IF frame_open THEN calls ELSE <<>>
    /\ frame_open' = FALSE
    /\ UNCHANGED <<mapVars, pathVars, otherVars>>

ObserversNext == ObserverReveals \/ FrameUpdate

SpecObservers == ObserversInit /\ [][ObserversNext]_vars

(***************************************************************************)
(* Claims about the occupancy of the map (Spec).                           *)
(***************************************************************************)
\* C1: after any sequence of calls of the unit_id and building_id setters,
\* a node is walkable if and only if the value last written by the unit
\* setter and the value last written by the building setter are both None.
C1_WalkableIffNothingWritten ==
    \A g \in nodes :
        walkable(g) <=> (unit_written[g] = None /\ building_written[g] = None)

\* C1 witness: one node holds a building and is not walkable while another
\* node, on which both setters have been called and both have last written
\* None, is walkable again.
C1_Witness ==
    \E g \in nodes, h \in nodes :
        /\ g # h
        /\ building_written[g] # None
        /\ ~walkable(g)
        /\ h \in DOMAIN units \cap DOMAIN buildings
        /\ unit_written[h] = None
        /\ building_written[h] = None
        /\ walkable(h)

\* C2: in every reachable state a grid position is a key of Map.units if
\* and only if the node's unit occupancy is not None, and a key of
\* Map.buildings if and only if the node's building occupancy is not None.
C2_KeysIffOccupied ==
    \A g \in nodes :
        /\ g \in DOMAIN units <=> _unit_id[g] # None
        /\ g \in DOMAIN buildings <=> _building_id[g] # None

(***************************************************************************)
(* Claims about find_path (SpecPath, SpecDetour).  The routes of the map   *)
(* are stated from the history of the setter calls, not from the code of   *)
(* walkable: a node is free when both setters last wrote None.             *)
(***************************************************************************)
Free(g) == unit_written[g] = None /\ building_written[g] = None

Abs(i) == IF i < 0 THEN -i ELSE i

Adjacent8(a, b) == a # b /\ Abs(a[1] - b[1]) <= 1 /\ Abs(a[2] - b[2]) <= 1

\* the nodes reached from the nodes of S by 8-adjacent steps onto free nodes
RECURSIVE ReachFrom(_)
ReachFrom(S) ==
    LET T == S \cup {n \in nodes : Free(n) /\ \E m \in S : Adjacent8(m, n)}
    IN  IF T = S THEN S ELSE ReachFrom(T)

Reachable(s, e) == e \in ReachFrom({s})

\* of the pairs <<node, cost>> of P, the cheapest of each node
Cheapest(P) == {p \in P : \A q \in P : q[1] = p[1] => p[2] <= q[2]}

\* the pairs reached from those of P by one step onto a free node, at the
\* precomputed edge cost
Steps(P) ==
    UNION {{<<n, p[2] + costs[p[1]][n]>> : n \in {m \in DOMAIN costs[p[1]] : Free(m)}} :
              p \in P}

RECURSIVE LeastCosts(_)
LeastCosts(P) ==
    LET T == Cheapest(P \cup Steps(P))
    IN  IF T = P THEN P ELSE LeastCosts(T)

\* the least total cost of the routes from s to e whose nodes after s are
\* free, -1 when there is no such route
MinCost(s, e) ==
    LET P == LeastCosts({<<s, 0>>})
    IN  IF \E p \in P : p[1] = e THEN (CHOOSE p \in P : p[1] = e)[2] ELSE -1

\* the nodes of a path of world positions
PathGrids(path) == [i \in 1..Len(path) |-> position_to_grid(path[i][1], path[i][2])]

RECURSIVE SumCosts(_, _)
SumCosts(grids, i) ==
    IF i >= Len(grids) THEN 0
    ELSE costs[grids[i]][grids[i + 1]] + SumCosts(grids, i + 1)

PathCost(path) == SumCosts(PathGrids(path), 1)

\* a find_path call between two different nodes of the map has returned a path
FoundPath ==
    /\ pc = "done"
    /\ result.status = "returned"
    /\ result.path # <<>>
    /\ start \in nodes
    /\ end \in nodes
    /\ start # end

\* C3: for every grid, every occupancy and every pair start # goal for
\* which find_path returns a non-empty path, the sum of the precomputed edge
\* costs along the returned path equals the least total cost of the routes
\* from start to goal whose nodes after start are all walkable.
C3_PathCostIsMinimal == FoundPath => PathCost(result.path) = MinCost(start, end)

\* a find_path call between two different nodes of the map is over
AnsweredQuery ==
    /\ pc = "done"
    /\ start \in nodes
    /\ end \in nodes
    /\ start # end

\* C4: for in-bounds start # goal, find_path returns the empty sequence if
\* and only if no route of 8-adjacent steps leads from start to goal over
\* nodes that are walkable after start (the goal included); an occupied
\* goal is never reached.
C4_EmptyIffNoRoute ==
    AnsweredQuery =>
        /\ result.status = "returned"
        /\ result.path = <<>> <=> ~Reachable(start, end)
        /\ ~Free(end) => result.path = <<>>

\* C4 witness: start and goal are free nodes of a map with more than one
\* row, occupied nodes separate them, and the call has returned the empty
\* sequence.
C4_Witness ==
    /\ AnsweredQuery
    /\ rows > 1
    /\ Free(start)
    /\ Free(end)
    /\ ~Reachable(start, end)
    /\ result = Returned(<<>>)

\* every in-bounds neighbour of grid g is occupied
Enclosed(g) == \A n \in nodes : Adjacent8(g, n) => ~Free(n)

\* C5 as claimed: if every in-bounds neighbour of goal is occupied,
\* find_path(start, goal) returns the empty sequence for every start # goal,
\* also for a start that is one of the occupied neighbours.
C5_EnclosedGoalIsUnreachable ==
    AnsweredQuery /\ Enclosed(end) => result = Returned(<<>>)

\* C5 as amended: if every in-bounds neighbour of goal is occupied,
\* find_path(start, goal) returns the empty sequence for every start # goal
\* that is not a neighbour of goal; for a start that is one of the occupied
\* neighbours it returns the path <<start, goal>> when goal is walkable, and
\* the empty sequence when goal is occupied.
C5_EnclosedGoalUnlessStartIsNeighbour ==
    AnsweredQuery /\ Enclosed(end) =>
        result = IF Adjacent8(start, end) /\ Free(end)
                 THEN Returned(<<position(start), position(end)>>)
                 ELSE Returned(<<>>)

\* C5 witness: a free goal with three neighbours, all of them occupied, a
\* start that is no neighbour of it, and the empty sequence returned.
C5_Witness ==
    /\ AnsweredQuery
    /\ Enclosed(end)
    /\ Cardinality({n \in nodes : Adjacent8(end, n)}) = 3
    /\ Free(end)
    /\ ~Adjacent8(start, end)
    /\ result = Returned(<<>>)

\* C6: for every in-bounds s, occupied or not, find_path(s, s) returns a
\* path of exactly one element, the world position of s.
C6_PathToItself ==
    pc = "done" /\ start = end /\ start \in nodes =>
        result = Returned(<<grid_to_position(start)>>)

\* C6 witness: find_path(s, s) has returned for an occupied s.
C6_Witness ==
    /\ pc = "done"
    /\ start = end
    /\ start \in nodes
    /\ ~Free(start)
    /\ Len(result.path) = 1

\* C7: every non-empty path returned by find_path(start, goal) starts at the
\* world position of start and ends at that of goal, consecutive elements
\* are the centres of different 8-adjacent nodes of the map, no node occurs
\* twice, and every node after the first is walkable.
C7_PathIsARoute ==
    pc = "done" /\ result.status = "returned" /\ result.path # <<>> =>
        LET path == result.path
            grids == PathGrids(path)
        IN  /\ path[1] = grid_to_position(start)
            /\ path[Len(path)] = grid_to_position(end)
            /\ \A i \in 1..Len(path) :
                   /\ grids[i] \in nodes
                   /\ path[i] = grid_to_position(grids[i])
            /\ \A i \in 1..(Len(path) - 1) : Adjacent8(grids[i], grids[i + 1])
            /\ \A i \in 1..Len(path), j \in 1..Len(path) : grids[i] = grids[j] => i = j
            /\ \A i \in 2..Len(path) : Free(grids[i])

\* C7 witness: a returned path of three nodes that goes around an occupied
\* node lying between start and goal in their row.
C7_Witness ==
    /\ pc = "done"
    /\ Len(result.path) = 3
    /\ start[2] = end[2]
    /\ \E n \in nodes : ~Free(n) /\ n[2] = start[2] /\ Adjacent8(n, start) /\ Adjacent8(n, end)
    /\ PathGrids(result.path)[2][2] # start[2]

\* C8: find_path(start, goal) fails with an out-of-bounds error whenever
\* start or goal is no coordinate of the generated grid, also when start is
\* in bounds and only goal is out of bounds.
C8_OutOfBoundsRaises ==
    pc = "done" /\ (start \notin nodes \/ end \notin nodes) => result = KeyError

(***************************************************************************)
(* Claims about FogOfWar (SpecFog).  A frame is the reveal_nodes calls     *)
(* between two updates; the state of a grid is what is drawn over it.      *)
(***************************************************************************)
\* C9: after every update, every tile of the map that at least one
\* reveal_nodes call of the frame contained is CLEAR, whether it was UNSEEN,
\* DIMMED or CLEAR before and whatever else was reported, and it is in
\* explored and no longer in unexplored.
C9_ReportedIsClear ==
    \A c \in nodes \cap last_frame_reports :
        /\ FogState(c) = "CLEAR"
        /\ c \in explored
        /\ c \notin unexplored

\* C9 witness: the last update has made CLEAR one tile that was UNSEEN and
\* one that was DIMMED, both reported in its frame together with a grid
\* that is no tile of the map, and has left a third tile DIMMED.
C9_Witness ==
    /\ frame_reports = {}
    /\ OffMap \in last_frame_reports
    /\ \E c, d, e \in nodes :
        /\ {c, d} \subseteq last_frame_reports
        /\ fog_before[c] = "UNSEEN"
        /\ fog_before[d] = "DIMMED"
        /\ FogState(c) = "CLEAR"
        /\ FogState(d) = "CLEAR"
        /\ c \in explored \ unexplored
        /\ e \notin last_frame_reports
        /\ FogState(e) = "DIMMED"

\* C10: after every update, every tile that was reported in an earlier
\* frame and by no reveal_nodes call of the frame just closed is DIMMED, is
\* in explored and not in unexplored, and visible holds nothing but the
\* reports made since that update.
C10_UnreportedIsDimmed ==
    \A c \in nodes :
        c \in earlier_reports \ last_frame_reports =>
            /\ FogState(c) = "DIMMED"
            /\ c \in explored
            /\ c \notin unexplored
            /\ c \in visible => c \in frame_reports

\* C10 witness: the last update closed a frame without any report and has
\* turned a tile from CLEAR to DIMMED.
C10_Witness ==
    /\ frame_reports = {}
    /\ last_frame_reports = {}
    /\ \E c \in nodes :
        /\ c \in earlier_reports
        /\ fog_before[c] = "CLEAR"
        /\ FogState(c) = "DIMMED"
        /\ c \in explored \ unexplored
        /\ c \notin visible

\* the grids that some reveal_nodes call has contained so far
EverReported == earlier_reports \cup frame_reports

\* C11 as claimed: a tile of the map that no reveal_nodes call has ever
\* contained is in unexplored, not in explored, and covered by its dark
\* sprite, after any number of frames and whatever else was reported.
C11_NeverReportedStaysUnseen ==
    \A c \in nodes \ EverReported :
        /\ c \in unexplored
        /\ c \notin explored
        /\ FogState(c) = "UNSEEN"
        /\ <<c, "DARK">> \in fog_sprite_lists[FogBlock(c)]

\* C11 as amended: a tile of the map that no reveal_nodes call has ever
\* contained is in unexplored and not in explored; outside editor mode it is
\* covered by its dark sprite, and in editor mode, where no dark sprite is
\* made, it has no sprite at all.
C11_NeverReportedStaysUnexplored ==
    \A c \in nodes \ EverReported :
        /\ c \in unexplored
        /\ c \notin explored
        /\ IF editor_mode
           THEN /\ c \notin DOMAIN grids_to_sprites
                /\ \A tex \in {"DARK", "FOG"} : <<c, tex>> \notin fog_sprite_lists[FogBlock(c)]
           ELSE /\ FogState(c) = "UNSEEN"
                /\ <<c, "DARK">> \in fog_sprite_lists[FogBlock(c)]

\* C11 witness: outside editor mode, after a frame that reported some tiles
\* and a later frame that reported others, a tile that was never reported is
\* still UNSEEN while one tile is CLEAR and one is DIMMED.
C11_Witness ==
    /\ ~editor_mode
    /\ frame_reports = {}
    /\ \E c, d, e \in nodes :
        /\ c \notin EverReported
        /\ c \in unexplored \ explored
        /\ FogState(c) = "UNSEEN"
        /\ d \in last_frame_reports
        /\ FogState(d) = "CLEAR"
        /\ e \in earlier_reports \ last_frame_reports
        /\ FogState(e) = "DIMMED"

\* the grids that are not UNSEEN
Seen == {c \in Reportable : FogState(c) # "UNSEEN"}

\* C12: in every step unexplored loses members or stays, explored gains
\* members or stays, and no grid that is CLEAR or DIMMED becomes UNSEEN.
C12_ExplorationIsPermanent ==
    [][/\ unexplored' \subseteq unexplored
       /\ explored \subseteq explored'
       /\ Seen \subseteq Seen']_vars

\* C12 witness: the last update began with one tile CLEAR, one DIMMED and
\* one UNSEEN, none of them reported in its frame; the first two are DIMMED
\* and explored after it and the third is UNSEEN and unexplored.
C12_Witness ==
    /\ ~editor_mode
    /\ frame_reports = {}
    /\ \E c, d, e \in nodes \ last_frame_reports :
        /\ fog_before[c] = "CLEAR"
        /\ fog_before[d] = "DIMMED"
        /\ fog_before[e] = "UNSEEN"
        /\ FogState(c) = "DIMMED"
        /\ FogState(d) = "DIMMED"
        /\ FogState(e) = "UNSEEN"
        /\ {c, d} \subseteq explored \ unexplored
        /\ e \in unexplored \ explored

\* C13: after every update no grid is both in unexplored and in explored,
\* and every grid reported in the frame the update closed is in explored.
C13_DisjointAndVisibleExplored ==
    /\ unexplored \cap explored = {}
    /\ last_frame_reports \subseteq explored

\* C13 witness: the frame closed by the last update reported a tile that
\* was explored before and a tile that the update has moved from unexplored
\* to explored, and a third tile is still unexplored.
C13_Witness ==
    /\ frame_reports = {}
    /\ unexplored # {}
    /\ \E c, d \in nodes \cap last_frame_reports :
        /\ fog_before[c] = "DIMMED"
        /\ fog_before[d] = "UNSEEN"
        /\ {c, d} \subseteq explored \ unexplored

(***************************************************************************)
(* Claims about the reveal_nodes calls of one frame (SpecObservers).       *)
(***************************************************************************)
\* the union of the sets of a sequence of reveal_nodes calls
Merged(cs) == UNION {cs[i] : i \in 1..Len(cs)}

\* C14: a reveal_nodes call changes nothing of unexplored, explored and the
\* sprites, and an update leaves what the union of the sets of the frame's
\* calls determines, whatever their order, their number and their overlap:
\* explored gains the union, unexplored loses it, every grid of the union is
\* CLEAR, every other grid that was explored is DIMMED and every remaining
\* grid is as before.
C14_ReportsMergeByUnion ==
    [][IF frame_open'
       THEN UNCHANGED <<unexplored, explored, grids_to_sprites, fog_sprite_lists>>
       ELSE /\ explored' = explored \cup Merged(calls')
            /\ unexplored' = unexplored \ Merged(calls')
            /\ \A c \in Reportable :
                   FogState(c)' = IF c \in Merged(calls') THEN "CLEAR"
                                  ELSE IF c \in explored THEN "DIMMED"
                                  ELSE FogState(c)]_vars

\* C14 witness: the frame closed by the last update had two reveal_nodes
\* calls that share a tile; the first holds a tile the second does not, and
\* both tiles are CLEAR and explored.
C14_Witness ==
    /\ ~frame_open
    /\ Len(calls) = 2
    /\ \E c, d \in nodes :
        /\ c \in calls[1] \ calls[2]
        /\ d \in calls[1] \cap calls[2]
        /\ fog_before[c] = "DIMMED"
        /\ FogState(c) = "CLEAR"
        /\ FogState(d) = "CLEAR"
        /\ {c, d} \subseteq explored \ unexplored

(***************************************************************************)
(* Claims about the generation of the map (SpecGenerate).                  *)
(***************************************************************************)
\* Map.__init__ has returned a map
IsGenerated == map_state \in {"generated", "recalculated"}

\* C15: a generated map of C = width div grid_width columns and R = height
\* div grid_height rows, neither negative, has exactly C * R nodes, one for
\* each grid of [0, C) x [0, R), and the node of grid (c, r) has the position
\* (c * TILE_WIDTH + TILE_WIDTH div 2, r * TILE_HEIGHT + TILE_HEIGHT div 2).
C15_OneNodePerGrid ==
    IsGenerated /\ columns >= 0 /\ rows >= 0 =>
        /\ columns = width \div grid_width
        /\ rows = height \div grid_height
        /\ Cardinality(DOMAIN map_nodes) = columns * rows
        /\ DOMAIN map_nodes = {<<c, r>> : c \in 0..(columns - 1), r \in 0..(rows - 1)}
        /\ DOMAIN map_nodes = nodes
        /\ \A c \in 0..(columns - 1), r \in 0..(rows - 1) :
               map_nodes[<<c, r>>] = <<c * TILE_WIDTH + TILE_WIDTH \div 2,
                                       r * TILE_HEIGHT + TILE_HEIGHT \div 2>>

\* C15 witness: a map of MaxColumns columns and fewer rows, more than one,
\* has been generated from a width that is no multiple of the grid width.
C15_Witness ==
    /\ IsGenerated
    /\ columns = MaxColumns
    /\ rows > 1
    /\ rows < columns
    /\ width % grid_width # 0
    /\ Cardinality(DOMAIN map_nodes) = columns * rows
    /\ map_nodes[<<columns - 1, rows - 1>>] = position(<<columns - 1, rows - 1>>)

\* the arguments of Map.__init__ give no column or no row
NoGrid ==
    \/ grid_width = 0
    \/ grid_height = 0
    \/ width \div grid_width <= 0
    \/ height \div grid_height <= 0

\* C16: Map.__init__ with arguments that give columns <= 0 or rows <= 0
\* raises a ConfigurationError: it neither returns a map without nodes nor
\* raises another error.
C16_NoGridRaisesConfigurationError ==
    map_state # "new" /\ NoGrid => map_state = "ConfigurationError"

\* the grids that differ from grid g by at most 1 in each component and
\* are not g
Around(g) ==
    {<<g[1] + dx, g[2] + dy>> : dx \in -1..1, dy \in -1..1} \ {g}

\* C17: on a generated map the cost table of every node n has an entry for
\* exactly the nodes of the map around n, and the entry for m is 1.4 times
\* the sum of the two terrain costs if n and m differ in column and in row,
\* and 1 times that sum otherwise (in tenths: 14 and 10 times the sum);
\* diagonal(a, b) is true exactly when both components differ.
C17_EdgeCosts ==
    IsGenerated =>
        /\ DOMAIN costs = DOMAIN map_nodes
        /\ \A n \in DOMAIN map_nodes :
               /\ DOMAIN costs[n] = Around(n) \cap DOMAIN map_nodes
               /\ \A m \in DOMAIN costs[n] :
                      costs[n][m] = (IF n[1] # m[1] /\ n[2] # m[2] THEN 14 ELSE 10)
                                       * (terrain_cost + terrain_cost)
               /\ \A m \in Around(n) :
                      diagonal(n, m) <=> (n[1] # m[1] /\ n[2] # m[2])

\* C17 witness: on a generated map of three columns and two rows the table
\* of the node (1, 0) has five entries, three at the cost of an orthogonal
\* step and two at the cost of a diagonal step.
C17_Witness ==
    /\ IsGenerated
    /\ columns = 3
    /\ rows = 2
    /\ Cardinality(DOMAIN costs[<<1, 0>>]) = 5
    /\ Cardinality({m \in DOMAIN costs[<<1, 0>>] : costs[<<1, 0>>][m] = 20}) = 3
    /\ Cardinality({m \in DOMAIN costs[<<1, 0>>] : costs[<<1, 0>>][m] = 28}) = 2

\* C18: a further call of calculate_distances_between_nodes leaves the cost
\* table of every node as it was, keys and values.
C18_CalculateAgainIsIdempotent ==
    [][map_state' = "recalculated" => costs' = costs]_vars

\* C18 witness: calculate_distances_between_nodes has been called again on
\* a map of more than one column and more than one row, whose tables hold
\* the costs of orthogonal and of diagonal steps.
C18_Witness ==
    /\ map_state = "recalculated"
    /\ columns > 1
    /\ rows > 1
    /\ costs[<<0, 0>>] = (<<1, 0>> :> 20) @@ (<<0, 1>> :> 20) @@ (<<1, 1>> :> 28)

(***************************************************************************)
(* Further claims about the occupancy setters and the neighbours of a node *)
(* (Spec).                                                                 *)
(***************************************************************************)
\* C19: after every call of the unit_id setter for a node, with an id or
\* with None, whatever the node held before, the node's _unit_id and the
\* entry of Map.units for its grid both hold the value passed, and the
\* building side is as it was; likewise for the building_id setter,
\* _building_id and Map.buildings.  A call is seen as a step that changes
\* the value last passed for the node or adds its key; any other call
\* passes the value the node holds and changes nothing.
C19_SetterWritesFlagAndTable ==
    [][\A g \in nodes :
          /\ (unit_written'[g] # unit_written[g] \/ g \in DOMAIN units' \ DOMAIN units) =>
                 /\ g \in DOMAIN units'
                 /\ units'[g] = unit_written'[g]
                 /\ _unit_id'[g] = unit_written'[g]
                 /\ UNCHANGED <<buildings, _building_id>>
          /\ (building_written'[g] # building_written[g]
                 \/ g \in DOMAIN buildings' \ DOMAIN buildings) =>
                 /\ g \in DOMAIN buildings'
                 /\ buildings'[g] = building_written'[g]
                 /\ _building_id'[g] = building_written'[g]
                 /\ UNCHANGED <<units, _unit_id>>
          /\ g \in DOMAIN units' => units'[g] = _unit_id'[g]
          /\ g \in DOMAIN buildings' => buildings'[g] = _building_id'[g]]_vars

\* C19 witness: one node holds the second unit id and a building id, in its
\* fields and in both tables, and another node, once written, holds None in
\* its unit field and in Map.units.
C19_Witness ==
    \E g, h \in nodes :
        /\ g # h
        /\ _unit_id[g] = "u2"
        /\ g \in DOMAIN units \cap DOMAIN buildings
        /\ units[g] = "u2"
        /\ _building_id[g] = "b1"
        /\ buildings[g] = "b1"
        /\ h \in DOMAIN units
        /\ units[h] = None
        /\ _unit_id[h] = None

(***************************************************************************)
(* Claim about the neighbours of a node, on the square map with the wall   *)
(* (SpecDetour), which has corner, edge and interior nodes.                *)
(***************************************************************************)
\* the elements of a sequence
Range(seq) == {seq[i] : i \in 1..Len(seq)}

\* the number of the two components of grid g that lie at an end of the map
AtEnds(g) ==
    (IF g[1] \in {0, columns - 1} THEN 1 ELSE 0) + (IF g[2] \in {0, rows - 1} THEN 1 ELSE 0)

\* C20: for every node c of the map, adjacent_nodes returns, each once, the
\* nodes of the map that differ from c by at most 1 in each component and
\* are not c: 3 for a corner, 5 for an edge and 8 for an interior node of a
\* map of at least two columns and two rows; and walkable_adjacent returns,
\* each once, those of them for which both setters last wrote None.
C20_AdjacentNodes ==
    \A c \in nodes :
        LET adjacent == adjacent_nodes(position(c)[1], position(c)[2])
            free == walkable_adjacent(position(c)[1], position(c)[2])
        IN  /\ Range(adjacent) = Around(c) \cap nodes
            /\ Len(adjacent) = Cardinality(Range(adjacent))
            /\ (columns >= 2 /\ rows >= 2) =>
                   Len(adjacent) = CASE AtEnds(c) = 2 -> 3
                                     [] AtEnds(c) = 1 -> 5
                                     [] OTHER -> 8
            /\ Range(free) = {m \in Around(c) \cap nodes : Free(m)}
            /\ Len(free) = Cardinality(Range(free))

\* C20 witness: the interior node (1, 2) has eight adjacent nodes, of which
\* two hold a unit and two a building, and four walkable adjacent nodes;
\* the corner (0, 0) has three adjacent nodes and the edge node (0, 2) five.
C20_Witness ==
    /\ Len(adjacent_nodes(position(<<1, 2>>)[1], position(<<1, 2>>)[2])) = 8
    /\ Len(walkable_adjacent(position(<<1, 2>>)[1], position(<<1, 2>>)[2])) = 4
    /\ Cardinality({m \in Around(<<1, 2>>) : _unit_id[m] # None}) = 2
    /\ Cardinality({m \in Around(<<1, 2>>) : _building_id[m] # None}) = 2
    /\ Len(adjacent_nodes(position(<<0, 0>>)[1], position(<<0, 0>>)[2])) = 3
    /\ Len(adjacent_nodes(position(<<0, 2>>)[1], position(<<0, 2>>)[2])) = 5

(***************************************************************************)
(* Claim about the lookup of a node (SpecLookup).                          *)
(***************************************************************************)
\* the grid a lookup asks for: its argument, or the grid of the tile in
\* which the position lies that it was given
AskedGrid(call) ==
    IF call.op = "position_to_node"
    THEN <<call.arg[1] \div TILE_WIDTH, call.arg[2] \div TILE_HEIGHT>>
    ELSE call.arg

\* C21: every lookup leaves the node table, the occupancy flags and the
\* reverse-lookup tables as they were; for a grid of [0, columns) x [0, rows)
\* it returns the node of that grid, and for any other grid it raises
\* KeyError.
C21_LookupRaisesOutsideGrid ==
    [][/\ UNCHANGED <<map_nodes, _unit_id, _building_id, units, buildings>>
       /\ LET grid == AskedGrid(lookup_call')
          IN  IF grid[1] \in 0..(columns - 1) /\ grid[2] \in 0..(rows - 1)
              THEN lookup_result' = [status |-> "returned", node |-> grid]
              ELSE lookup_result'.status = "KeyError"]_vars

\* C21 witness: position_to_node has raised KeyError for a position just
\* right of the last column of a map with a unit and a building on it.
C21_Witness ==
    /\ lookup_call.op = "position_to_node"
    /\ lookup_call.arg[1] = columns * TILE_WIDTH
    /\ lookup_call.arg[2] \in 0..(rows * TILE_HEIGHT - 1)
    /\ lookup_result.status = "KeyError"
    /\ \E g, h \in nodes : _unit_id[g] # None /\ _building_id[h] # None

(***************************************************************************)
(* Claim about the nodes of a killed Building (SpecBuilding).              *)
(***************************************************************************)
\* C22: when a Building is killed, every node it occupied has no building
\* on it, and, if no unit stands on it, is walkable and among the walkable
\* neighbours of each of its neighbours; and no node ever holds a killed
\* Building.
C22_KilledBuildingFreesItsNodes ==
    [][/\ \A self \in killed' \ killed : \A grid \in occupied_nodes[self] :
              /\ _building_id'[grid] = None
              /\ _unit_id'[grid] = None =>
                     /\ walkable(grid)'
                     /\ \A n \in Range(adjacent_nodes(position(grid)[1], position(grid)[2])) :
                            grid \in Range(walkable_adjacent(position(n)[1], position(n)[2]))'
       /\ \A self \in killed', grid \in nodes : _building_id'[grid] # self]_vars

\* C22 witness: a killed Building had blocked two nodes; a unit stands on
\* one of them and the other is walkable again, while the other Building
\* stands.
C22_Witness ==
    \E self \in killed, other \in DOMAIN occupied_nodes \ killed :
        /\ \E g, h \in occupied_nodes[self] :
               /\ _unit_id[g] # None
               /\ _building_id[g] = None
               /\ walkable(h)
        /\ \E g \in occupied_nodes[other] : _building_id[g] = other

(***************************************************************************)
(* Claim about the missions of a Campaign (SpecCampaign).                  *)
(***************************************************************************)
\* the missions update has unlocked: mission 0 and the successors of the
\* finished missions
Unlocked == {i \in DOMAIN missions : i = 0 \/ i - 1 \in finished_missions}

RECURSIVE NamesOf(_, _)
NamesOf(indexes, i) ==
    IF i \notin DOMAIN missions THEN <<>>
    ELSE (IF i \in indexes THEN <<missions[i][1]>> ELSE <<>>) \o NamesOf(indexes, i + 1)

\* C24: in a Campaign of one or more missions the playable missions are
\* mission 0 and every mission i + 1 such that update was called with the
\* finished mission i, and no call of update raised an error.
C24_PlayableAreTheUnlocked ==
    campaign_name # None /\ Cardinality(DOMAIN missions) >= 1 =>
        /\ {i \in DOMAIN missions : missions[i][2]} = Unlocked
        /\ playable_missions = NamesOf(Unlocked, 0)
        /\ update_outcome # "KeyError"

\* C24 witness: the first and the last mission of a Campaign of three or
\* more missions were finished and not the second: the third mission is
\* locked and the first two are playable.
C24_Witness ==
    /\ Cardinality(DOMAIN missions) >= 3
    /\ {0, Cardinality(DOMAIN missions) - 1} \subseteq finished_missions
    /\ 1 \notin finished_missions
    /\ ~missions[2][2]
    /\ Len(playable_missions) = 2
    /\ update_outcome = "returned"

(***************************************************************************)
(* Claim about SoundPlayer.clear (SpecSound).                              *)
(***************************************************************************)
\* C25: after clear() currently_played is empty and current_music is None,
\* and a play() or pause() that follows it calls no method of a Player.
C25_ClearLeavesNothingPlayed ==
    [][/\ sound_call' = "clear" =>
              /\ DOMAIN currently_played' = {}
              /\ current_music' = None
       /\ sound_call = "clear" /\ sound_call' \in {"play", "pause"} =>
              touched' = {}]_vars

(***************************************************************************)
(* Claim about get_enemies (SpecEnemies).                                  *)
(***************************************************************************)
\* the exponents of the ids get_enemies tests: those up to the first index
SupportedPowers == {k \in 0..MaxPower : ~Less(first_index, Power(k))}

\* C26: for two ids a > b that are powers of two up to the first index,
\* get_enemies(a + b) returns (a, b).
C26_EnemiesOfTheSum ==
    enemies # <<>> =>
        \A i \in SupportedPowers, j \in SupportedPowers :
            j < i /\ war = Plus(Power(i), Power(j)) =>
                enemies = <<Power(i), Power(j)>>

\* C26 witness: get_enemies has returned the highest id tested and the id
\* 1 for their sum.
C26_Witness ==
    /\ war = Plus(first_index, <<0, 1>>)
    /\ enemies = <<first_index, <<0, 1>>>>

(***************************************************************************)
(* Claim about find_path as a query (SpecQuery).                           *)
(***************************************************************************)
\* C23: no step of find_path changes the nodes, the occupancy flags, the
\* unit and building tables or the edge costs, and when the call is over
\* nothing of the search is left; a call that finds the occupancy and the
\* arguments of the call before it returns what that call returned, and
\* every call answers for the occupancy it finds: the empty path if and
\* only if no route leads from start to goal now, and otherwise a path
\* whose nodes after the first are free now.
C23_FindPathIsAPureQuery ==
    [][/\ pc # "idle" \/ pc' # "idle" =>
              UNCHANGED <<map_nodes, costs, units, buildings, _unit_id, _building_id>>
       /\ pc = "done" /\ pc' = "idle" =>
              /\ elements' = {}
              /\ _contains' = {}
              /\ previous' = EmptyDict
              /\ cost_so_far' = EmptyDict
       /\ pc = "loop" /\ pc' = "done" =>
              /\ last_answer.asked = Asked' => result' = last_answer.result
              /\ start' # end' => (result'.path = <<>> <=> ~Reachable(start, end)')
              /\ \A g \in nodes :
                     (\E i \in 2..Len(result'.path) : PathGrids(result'.path)[i] = g) =>
                         Free(g)']_vars

\* C23 witness: the call before the running one had the same arguments and
\* returned a path of three nodes; a unit has been put on the node between
\* them since, and the running call has returned the empty path.
C23_Witness ==
    /\ pc = "done"
    /\ last_answer.asked # <<>>
    /\ last_answer.asked[3] = start
    /\ last_answer.asked[4] = end
    /\ Len(last_answer.result.path) = 3
    /\ \E g \in nodes : last_answer.asked[1][g] = None /\ _unit_id[g] # None
    /\ result = Returned(<<>>)

(***************************************************************************)
(* Claims about the frontier of find_path (SpecDetour, SpecPath).          *)
(***************************************************************************)
\* the coordinates queued and not yet popped
Frontier == {e[2] : e \in elements}

\* C27: when the node popped from the frontier is expanded, every walkable
\* neighbour that is still in the frontier and is reached through the
\* popped node at a strictly lower total cost gets that cost and the popped
\* node as its predecessor and is put into the frontier with the priority
\* of that cost; a neighbour in the frontier reached at no lower cost keeps
\* its cost and its predecessor.
C27_FrontierIsRelaxed ==
    [][pc = "loop" /\ pc' = "loop" =>
          LET current == heappop(elements)[2]
          IN  \A adj \in Range(walkable_adjacent(position(current)[1],
                                                  position(current)[2])) :
                  adj \in Frontier \ {current} =>
                      LET total == cost_so_far[current] + costs[current][adj]
                      IN  IF total < cost_so_far[adj]
                          THEN /\ cost_so_far'[adj] = total
                               /\ previous'[adj] = current
                               /\ <<priority_of(total, adj, end), adj>> \in elements'
                          ELSE /\ cost_so_far'[adj] = cost_so_far[adj]
                               /\ previous'[adj] = previous[adj]]_vars

\* C28: after any puts and gets, item in queue is true if and only if the
\* item has been put and not yet returned by get, that is, if it is held in
\* the heap.
C28_ContainsIffQueued ==
    \A item \in nodes \cup Outside :
        contains(SearchState.queue, item) <=> item \in Frontier

\* the predecessor links from g lead to start in at most fuel steps
RECURSIVE LeadsToStart(_, _)
LeadsToStart(g, fuel) ==
    \/ g = start
    \/ /\ fuel > 0
       /\ g \in DOMAIN previous
       /\ LeadsToStart(previous[g], fuel - 1)

\* C29: in a search between nodes of the map every coordinate is put into
\* the frontier at most once, get is called at most columns * rows times
\* and after that many calls the frontier is empty, the predecessor links
\* of every coordinate lead to start without passing a coordinate twice,
\* and the search ends by returning.
C29_SearchIsBounded ==
    pc # "idle" /\ start \in nodes /\ end \in nodes =>
        /\ \A g \in DOMAIN inserted : inserted[g] <= 1
        /\ pops <= columns * rows
        /\ pops = columns * rows => elements = {}
        /\ start \notin DOMAIN previous
        /\ \A g \in DOMAIN previous : LeadsToStart(g, Cardinality(DOMAIN previous))
        /\ pc = "done" => result.status = "returned"

\* C29 witness: a search for an occupied goal has returned the empty path
\* after every other node of the map was put once and popped, which emptied
\* the frontier.
C29_Witness ==
    /\ pc = "done"
    /\ result = Returned(<<>>)
    /\ elements = {}
    /\ start \in nodes
    /\ end \in nodes
    /\ ~Free(end)
    /\ pops = columns * rows - 1
    /\ \A g \in nodes \ {end} : g \in DOMAIN inserted /\ inserted[g] = 1
    /\ \A g \in nodes \ {start, end} : LeadsToStart(g, pops)

(***************************************************************************)
(* Claim about reveal_nodes between two updates (SpecFog).                 *)
(***************************************************************************)
\* C30: a call of reveal_nodes (the steps that leave visible non-empty,
\* since update empties it) only adds to visible: unexplored, explored, the
\* fog sprites and their lists, and with them the fog state of every grid,
\* stay as the last update left them.
C30_RevealNodesOnlyAddsToVisible ==
    [][visible' # {} =>
          /\ visible \subseteq visible'
          /\ UNCHANGED <<unexplored, explored, grids_to_sprites, fog_sprite_lists>>
          /\ \A c \in Reportable : FogState(c)' = FogState(c)]_vars

\* C30 witness: a grid never seen and a grid seen in an earlier frame are
\* both reported for the frame in progress, and the first is still dark and
\* the second still dimmed.
C30_Witness ==
    \E c \in visible \cap unexplored, d \in visible \cap explored :
        /\ FogState(c) = "UNSEEN"
        /\ FogState(d) = "DIMMED"

(***************************************************************************)
(* C31: restoring a saved FogOfWar gives back what was saved: unexplored,  *)
(* visible and explored are the saved sets, and over every grid is drawn   *)
(* what was drawn over it when the state was saved; a grid that was        *)
(* DIMMED is DIMMED, not CLEAR, right after __setstate__.                  *)
(* Violated: __setstate__ makes the dark sprites only.  On a map of two    *)
(* tiles reveal_nodes({(0, 0)}), update(), update() leaves the grey sprite *)
(* over (0, 0); after __getstate__ and __setstate__ of that state nothing  *)
(* is drawn over (0, 0) until the next update.                             *)
(***************************************************************************)
C31_SaveRestoreIsARoundTrip ==
    fog_call = "__setstate__" =>
        /\ unexplored = saved_fow[1].unexplored
        /\ explored = saved_fow[1].explored
        /\ \A c \in nodes : FogState(c) = fog_saved[c]

(***************************************************************************)
(* C32: what the building_id property of a node returns is the value last  *)
(* passed to its building_id setter, whatever was passed to its unit_id    *)
(* setter, and what unit_id returns is the value last passed to the        *)
(* unit_id setter, whatever was passed to the building_id setter.          *)
(* Violated: the getter of building_id returns self._unit_id.  After       *)
(* node.building_id = "b1" on a new node, node.building_id is None; after  *)
(* node.unit_id = "u1" it is "u1".                                         *)
(***************************************************************************)
C32_GettersReturnTheirOwnWrite ==
    \A g \in nodes :
        /\ building_id(g) = building_written[g]
        /\ unit_id(g) = unit_written[g]

(***************************************************************************)
(* Further claims about the sprites and the sets of the FogOfWar           *)
(* (SpecFog).                                                              *)
(***************************************************************************)
\* the sprites of all sprite lists that lie over grid g
SpritesOver(g) ==
    {s \in UNION {fog_sprite_lists[b] : b \in DOMAIN fog_sprite_lists} : s[1] = g}

\* C33: outside editor mode no grid ever has two sprites, the sprite lists
\* hold the sprite grids_to_sprites names for a grid and no other, and when
\* an update has returned (visible is empty: before the first report and
\* after every update) a tile of the map has the dark sprite if and only if
\* it is in unexplored, the grey fog sprite if and only if it is in explored
\* and was not reported in the frame just closed, and no sprite if and only
\* if it was reported in that frame.
C33_SpritesMirrorTheSets ==
    ~editor_mode =>
        /\ \A g \in Reportable :
               /\ Cardinality(SpritesOver(g)) <= 1
               /\ SpritesOver(g) =
                      IF g \in DOMAIN grids_to_sprites
                      THEN {<<g, grids_to_sprites[g]>>} ELSE {}
               /\ SpritesOver(g) \subseteq
                      IF FogBlock(g) \in DOMAIN fog_sprite_lists
                      THEN fog_sprite_lists[FogBlock(g)] ELSE {}
        /\ visible = {} =>
               \A g \in nodes :
                   /\ FogState(g) = "UNSEEN" <=> g \in unexplored
                   /\ FogState(g) = "DIMMED" <=>
                          (g \in explored /\ g \notin last_frame_reports)
                   /\ FogState(g) = "CLEAR" <=> g \in last_frame_reports

\* C33 witness: outside editor mode an update has just closed a frame in
\* which one tile was reported, while another tile is explored and under
\* the grey sprite and a third is still under its dark sprite.
C33_Witness ==
    /\ ~editor_mode
    /\ visible = {}
    /\ \E a, b, c \in nodes :
           /\ a \in unexplored /\ SpritesOver(a) = {<<a, "DARK">>}
           /\ b \in explored \ last_frame_reports /\ SpritesOver(b) = {<<b, "FOG">>}
           /\ c \in last_frame_reports /\ SpritesOver(c) = {}

(***************************************************************************)
(* C34: whatever is reported, grids that are no tiles of the map           *)
(* included, unexplored and explored together hold the grids of the map    *)
(* and nothing else.                                                       *)
(* Violated: update adds all of visible to explored.  On the map of one    *)
(* row of three tiles reveal_nodes({(3, 0)}) and update() leave (3, 0),    *)
(* which is no tile of the map, in explored, and the update after that     *)
(* puts a grey sprite over it.                                             *)
(***************************************************************************)
C34_SetsCoverTheMapOnly ==
    unexplored \cup explored = nodes

(***************************************************************************)
(* Claims about the triggers and the result of a Mission (SpecTriggers,    *)
(* SpecMission).                                                           *)
(***************************************************************************)
\* C35: a call of evaluate_triggers executes the events of every trigger of
\* the list that is fulfilled at the call, each once, and of no other, and
\* leaves in the list the triggers that are not fulfilled, in their order.
\* Violated: the loop removes from the list the generator is reading, so
\* the trigger behind a removed one is passed over.  With the list
\* [t1, t2, t3] and t1 and t2 fulfilled one call executes and removes t1
\* alone and leaves [t2, t3].
C35_EvaluateTakesEveryFulfilled ==
    [][mission_call'.op = "evaluate_triggers" =>
          /\ Range(executed') = Range(triggers) \cap fulfilled'
          /\ Len(executed') = Cardinality(Range(triggers) \cap fulfilled')
          /\ triggers' = SelectSeq(triggers, LAMBDA t : t \notin fulfilled')]_vars

\* C36: once a Mission has ended it stays ended and its winner stays the
\* same, whatever is called after.
\* Violated: end_mission assigns the winner whenever it is called.  After
\* add_victory_points(p1, 1) has ended the mission with p1 as winner, two
\* calls of add_victory_points(p2, 1) bring p2 to its two points and make p2
\* the winner.
C36_ResultIsFinal ==
    [][ended => ended' /\ winner' = winner]_vars

\* C37: eliminate_player calls end_mission if and only if one player is
\* left once the eliminated one is taken out, with that player as winner,
\* and with two or more left it leaves ended and winner alone;
\* add_victory_points calls end_mission only for the player it was called
\* for and only if the points of that player are no less than the points
\* the player needs and these are more than zero.
C37_EndedByLastSurvivorOrPoints ==
    [][/\ mission_call'.op = "eliminate_player" =>
              /\ ending' # None <=> Cardinality(players \ {mission_call'.arg}) = 1
              /\ ending' # None =>
                     /\ players \ {mission_call'.arg} = {ending'}
                     /\ ended'
                     /\ winner' = ending'
              /\ Cardinality(players \ {mission_call'.arg}) >= 2 =>
                     UNCHANGED <<ended, winner>>
       /\ mission_call'.op = "add_victory_points" =>
              /\ ending' # None =>
                     /\ ending' = mission_call'.arg
                     /\ victory_points'[ending'] >= required_victory_points'[ending']
                     /\ required_victory_points'[ending'] > 0
                     /\ ended'
                     /\ winner' = ending'
              /\ ending' = None => UNCHANGED <<ended, winner>>]_vars

\* C37 witness: p1 and p2 have been eliminated, p2 with one of the two
\* points it needs, and the last call, eliminate_player(p2), made p3, who
\* needs no points, the winner.
C37_Witness ==
    /\ mission_call = [op |-> "eliminate_player", arg |-> "p2"]
    /\ ending = "p3"
    /\ ended
    /\ winner = "p3"
    /\ players = {}
    /\ victory_points["p2"] = 1
    /\ required_victory_points["p3"] = 0

TileOf(p) ==
    CHOOSE g \in (-1..columns) \X (-1..rows) :
        /\ g[1] * TILE_WIDTH <= p[1] /\ p[1] < (g[1] + 1) * TILE_WIDTH
        /\ g[2] * TILE_HEIGHT <= p[2] /\ p[2] < (g[2] + 1) * TILE_HEIGHT

\* C39: position_to_grid of the position of a grid is that grid; for a
\* position of whole numbers position_to_grid returns the grid of the tile
\* it lies in and normalize_position the position of that grid, which
\* normalize_position leaves as it is; and position_to_node of the
\* position of a node of the map returns that node.
C39_PositionsRoundTrip ==
    LET arg == lookup_call.arg
        value == lookup_result.node
    IN  /\ lookup_call.op = "grid_to_position" =>
               position_to_grid(value[1], value[2]) = arg
        /\ lookup_call.op = "position_to_grid" => value = TileOf(arg)
        /\ lookup_call.op = "normalize_position" =>
               /\ value = grid_to_position(TileOf(arg))
               /\ normalize_position(value[1], value[2]) = value
        /\ lookup_call.op = "position_to_node" =>
               \A n \in DOMAIN map_nodes :
                   map_nodes[n] = arg => lookup_result = NodeFound(n)

\* C39 witness: normalize_position has returned the middle of the tile left
\* of and below the map for the last position of that tile, whose
\* coordinates are negative.
C39_Witness ==
    /\ lookup_call = [op |-> "normalize_position", arg |-> <<-1, -1>>]
    /\ lookup_result.node = <<-(TILE_WIDTH \div 2), -(TILE_HEIGHT \div 2)>>

====
